---------------------------- MODULE Spec2Model ----------------------------
(***************************************************************************)
(* Reconciliation of registry records with calendar events.                *)
(*                                                                         *)
(* The repository holds several generations of the same POST /create-event *)
(* handler.  Three of them are modelled side by side; the variable         *)
(* `variant` fixes, for a whole behaviour, which one is running:           *)
(*   "G"  src/googleMiddleware.js  (ER code from the summary, eventMappings)*)
(*   "S"  src/server.js            (recordId, eventTrackingData + recent    *)
(*                                  events cache)                           *)
(*   "E"  src/unnamed/part_000     (server.js with extractEventIdentifier)  *)
(*                                                                         *)
(* Text is modelled as a sequence of one-character strings, so that the    *)
(* regular expressions of the handlers are computed and not assumed.       *)
(***************************************************************************)
EXTENDS Integers, Sequences, FiniteSets, TLC

-----------------------------------------------------------------------------
(* Characters and JavaScript truthiness *)

Digits == {"0", "1", "2", "3", "4", "5", "6", "7", "8", "9"}

UpperSeq == <<"A", "B", "C", "D", "E", "F", "G", "H", "I", "J", "K", "L", "M",
              "N", "O", "P", "Q", "R", "S", "T", "U", "V", "W", "X", "Y", "Z">>

LowerSeq == <<"a", "b", "c", "d", "e", "f", "g", "h", "i", "j", "k", "l", "m",
              "n", "o", "p", "q", "r", "s", "t", "u", "v", "w", "x", "y", "z">>

UpperChars == {UpperSeq[i] : i \in 1..Len(UpperSeq)}

WhiteSpace == {" "}

\* null, undefined and "" are all falsy: one value stands for the three.
Null == <<>>

Truthy(s) == s # Null

\* JavaScript's a || b on strings.
OrElse(a, b) == IF Truthy(a) THEN a ELSE b

\* Case folding, for the regular expressions carrying the i flag.
Fold(c) ==
    IF c \in UpperChars
    THEN LowerSeq[CHOOSE i \in 1..Len(UpperSeq) : UpperSeq[i] = c]
    ELSE c

\* Length of the longest run of characters of Cls that starts at s[i].
RECURSIVE RunLen(_, _, _)
RunLen(s, i, Cls) ==
    IF i > Len(s) THEN 0
    ELSE IF s[i] \in Cls THEN 1 + RunLen(s, i + 1, Cls)
    ELSE 0

\* Does the text t occur in s at position i (String.prototype.startsWith)?
StartsAt(s, i, t) ==
    /\ i + Len(t) - 1 <= Len(s)
    /\ \A k \in 1..Len(t) : s[i + k - 1] = t[k]

\* The same, ignoring case.
StartsAtFold(s, i, t) ==
    /\ i + Len(t) - 1 <= Len(s)
    /\ \A k \in 1..Len(t) : Fold(s[i + k - 1]) = Fold(t[k])

\* String.prototype.includes
Includes(s, t) == \E i \in 1..(Len(s) + 1) : StartsAt(s, i, t)

-----------------------------------------------------------------------------
(* Identifier extraction *)

\* summary.match(/^(ER\d+)/) of googleMiddleware.js
extractERCode(summary) ==
    IF ~Truthy(summary) THEN Null
    ELSE IF StartsAt(summary, 1, <<"E", "R">>) /\ RunLen(summary, 3, Digits) >= 1
         THEN SubSeq(summary, 1, 2 + RunLen(summary, 3, Digits))
         ELSE Null

\* The match of /([A-Z]+\d+)/ that starts exactly at s[i], or Null.
\* [A-Z]+ is greedy and a shorter run of letters is followed by a letter,
\* never by a digit, so only the longest run can be followed by \d+.
PrefixCodeAt(s, i) ==
    LET u == RunLen(s, i, UpperChars)
        d == RunLen(s, i + u, Digits)
    IN IF u >= 1 /\ d >= 1 THEN SubSeq(s, i, i + u + d - 1) ELSE Null

\* The leftmost match of /([A-Z]+\d+)/ in s, or Null.
PrefixCodeAnywhere(s) ==
    LET hits == {i \in 1..Len(s) : Truthy(PrefixCodeAt(s, i))}
    IN IF hits = {} THEN Null
       ELSE PrefixCodeAt(s, CHOOSE i \in hits : \A j \in hits : i <= j)

RecordIdLabel == <<"R", "e", "c", "o", "r", "d", "I", "D", ":">>

\* The capture of /RecordID:\s*(\d+)/i that starts at s[i], or Null.
MarkerAt(s, i) ==
    IF ~StartsAtFold(s, i, RecordIdLabel) THEN Null
    ELSE LET j == i + Len(RecordIdLabel)
             w == RunLen(s, j, WhiteSpace)
             d == RunLen(s, j + w, Digits)
         IN IF d >= 1 THEN SubSeq(s, j + w, j + w + d - 1) ELSE Null

\* description.match(/RecordID:\s*(\d+)/i): the leftmost match's digits.
extractRecordIdFromDescription(description) ==
    IF ~Truthy(description) THEN Null
    ELSE LET hits == {i \in 1..Len(description) : Truthy(MarkerAt(description, i))}
         IN IF hits = {} THEN Null
            ELSE MarkerAt(description, CHOOSE i \in hits : \A j \in hits : i <= j)

RidPrefix == <<"R", "I", "D", "_">>

\* extractEventIdentifier of part_000: summary prefix, description prefix,
\* then the RecordID marker, returned with the RID_ prefix.
extractEventIdentifier(summary, description) ==
    IF Truthy(PrefixCodeAt(summary, 1)) THEN PrefixCodeAt(summary, 1)
    ELSE IF Truthy(PrefixCodeAnywhere(description)) THEN PrefixCodeAnywhere(description)
    ELSE IF Truthy(extractRecordIdFromDescription(description))
         THEN RidPrefix \o extractRecordIdFromDescription(description)
    ELSE Null

-----------------------------------------------------------------------------
(* Request bodies *)

\* A request body is the sequence of its fields in the order they were sent.
\* obj = TRUE stands for a nested object {dateTime: v}, as in
\* start: {dateTime: "..."}; otherwise v is the field's string value.
Fld(k, v) == [k |-> k, v |-> v, obj |-> FALSE]

Nested(k, v) == [k |-> k, v |-> v, obj |-> TRUE]

\* req.body[k] when it is a string, else Null.
Str(body, k) ==
    LET hits == {i \in 1..Len(body) : body[i].k = k /\ ~body[i].obj}
    IN IF hits = {} THEN Null ELSE body[CHOOSE i \in hits : TRUE].v

\* req.body[k] && req.body[k].dateTime
DateTimeOf(body, k) ==
    LET hits == {i \in 1..Len(body) : body[i].k = k /\ body[i].obj}
    IN IF hits = {} THEN Null ELSE body[CHOOSE i \in hits : TRUE].v

\* JSON.stringify(req.body), tokenised: every key is one token (no key of a
\* modelled body holds a digit), every value is spelled character by character.
RECURSIVE Stringify(_, _)
Stringify(body, i) ==
    IF i > Len(body) THEN <<"}">>
    ELSE LET f == body[i]
             val == IF f.obj
                    THEN <<"{", "\"", "dateTime", "\"", ":", "\"">> \o f.v \o <<"\"", "}">>
                    ELSE <<"\"">> \o f.v \o <<"\"">>
         IN <<(IF i = 1 THEN "{" ELSE ","), "\"", f.k, "\"", ":">> \o val
            \o Stringify(body, i + 1)

\* jsonStr.match(/\d+/g).filter(4 <= length <= 8)[0], or Null
RECURSIVE FirstPotentialId(_, _)
FirstPotentialId(js, i) ==
    IF i > Len(js) THEN Null
    ELSE LET n == RunLen(js, i, Digits)
         IN IF n = 0 THEN FirstPotentialId(js, i + 1)
            ELSE IF n >= 4 /\ n <= 8 THEN SubSeq(js, i, i + n - 1)
            ELSE FirstPotentialId(js, i + n)

\* summary / description as each handler reads them
SummaryG(body) == Str(body, "summary")

DescriptionG(body) == Str(body, "description")

\* "Default Event Name"
DefaultSummary ==
    <<"D", "e", "f", "a", "u", "l", "t", " ", "E", "v", "e", "n", "t", " ", "N", "a", "m", "e">>

\* "No Description"
DefaultDescription ==
    <<"N", "o", " ", "D", "e", "s", "c", "r", "i", "p", "t", "i", "o", "n">>

SummaryS(body) ==
    OrElse(Str(body, "summary"),
           OrElse(Str(body, "title"), OrElse(Str(body, "event_name"), DefaultSummary)))

DescriptionS(body) ==
    OrElse(Str(body, "description"),
           OrElse(Str(body, "notes"), OrElse(Str(body, "details"), DefaultDescription)))

\* req.body.recordId || req.body.id || req.body.record_id
ExplicitId(body) ==
    OrElse(Str(body, "recordId"), OrElse(Str(body, "id"), Str(body, "record_id")))

\* The recordId of server.js before the placeholder: explicit field, marker
\* in the description, then the first 4 to 8 digit number of the whole body.
RecordIdS(body) ==
    LET fromFields == OrElse(ExplicitId(body),
                             extractRecordIdFromDescription(DescriptionS(body)))
    IN OrElse(fromFields, FirstPotentialId(Stringify(body, 1), 1))

\* The eventId of part_000 before the placeholder.
EventIdE(body) ==
    LET found == extractEventIdentifier(SummaryS(body), DescriptionS(body))
    IN IF Truthy(found) THEN found
       ELSE IF Truthy(ExplicitId(body)) THEN RidPrefix \o ExplicitId(body)
       ELSE Null

\* The identifier a handler resolves from the body itself (Null: none).
ResolveId(v, body) ==
    CASE v = "G" -> extractERCode(SummaryG(body))
      [] v = "S" -> RecordIdS(body)
      [] v = "E" -> EventIdE(body)

\* start / end as each handler reads them
StartTimeG(body) == OrElse(DateTimeOf(body, "start"), Str(body, "StartUse"))

EndTimeG(body) == OrElse(DateTimeOf(body, "end"), Str(body, "EndUse"))

StartTimeS(body) ==
    OrElse(DateTimeOf(body, "start"),
      OrElse(Str(body, "StartUse"),
        OrElse(Str(body, "start_time"),
          OrElse(Str(body, "startTime"), Str(body, "start")))))

EndTimeS(body) ==
    OrElse(DateTimeOf(body, "end"),
      OrElse(Str(body, "EndUse"),
        OrElse(Str(body, "end_time"),
          OrElse(Str(body, "endTime"), Str(body, "end")))))

StartTime(v, body) == IF v = "G" THEN StartTimeG(body) ELSE StartTimeS(body)

EndTime(v, body) == IF v = "G" THEN EndTimeG(body) ELSE EndTimeS(body)

\* A handler without the check of start and end.
MissingNever(v, body) == FALSE

\* if (!startTime || !endTime)
MissingTimes(v, body) == ~Truthy(StartTime(v, body)) \/ ~Truthy(EndTime(v, body))

-----------------------------------------------------------------------------
(* Date strings: luxon's DateTime.fromFormat and DateTime.fromISO *)

DigitSeq == <<"0", "1", "2", "3", "4", "5", "6", "7", "8", "9">>

DigitVal(c) == (CHOOSE i \in 1..Len(DigitSeq) : DigitSeq[i] = c) - 1

\* The number a run of digits spells.
RECURSIVE Num(_)
Num(ds) ==
    IF ds = <<>> THEN 0
    ELSE 10 * Num(SubSeq(ds, 1, Len(ds) - 1)) + DigitVal(ds[Len(ds)])

MonthNames == << <<"j", "a", "n">>, <<"f", "e", "b">>, <<"m", "a", "r">>,
                 <<"a", "p", "r">>, <<"m", "a", "y">>, <<"j", "u", "n">>,
                 <<"j", "u", "l">>, <<"a", "u", "g">>, <<"s", "e", "p">>,
                 <<"o", "c", "t">>, <<"n", "o", "v">>, <<"d", "e", "c">> >>

IsLeap(y) == (y % 4 = 0 /\ y % 100 # 0) \/ y % 400 = 0

DaysInMonth(y, m) ==
    IF m = 2 THEN (IF IsLeap(y) THEN 29 ELSE 28)
    ELSE IF m \in {4, 6, 9, 11} THEN 30 ELSE 31

\* What a parse yields.  mer: 0 none, 1 AM, 2 PM.  zone: "none", "Z" or "off"
\* (an explicit +HH:mm / -HH:mm offset of off minutes).  h12: the hour came
\* from an h or hh token, which the meridiem then adjusts.
NoParse == [ok |-> FALSE, Y |-> 0, M |-> 1, D |-> 1, h |-> 0, mi |-> 0, s |-> 0,
            ms |-> 0, mer |-> 0, h12 |-> FALSE, zone |-> "none", off |-> 0]

EmptyParse == [NoParse EXCEPT !.ok = TRUE]

\* The tokens luxon reads a fixed count of digits for, the count and the unit.
FixedDigits == [yyyy |-> 4, MM |-> 2, dd |-> 2, HH |-> 2, hh |-> 2, mm |-> 2,
                ss |-> 2, SSS |-> 3]

\* The tokens luxon reads one or two digits for.
OneOrTwo == {"M", "d", "h", "H"}

SetUnit(acc, tok, n) ==
    CASE tok = "yyyy"          -> [acc EXCEPT !.Y = n]
      [] tok \in {"MM", "M"}   -> [acc EXCEPT !.M = n]
      [] tok \in {"dd", "d"}   -> [acc EXCEPT !.D = n]
      [] tok \in {"HH", "H"}   -> [acc EXCEPT !.h = n]
      [] tok \in {"hh", "h"}   -> [acc EXCEPT !.h = n, !.h12 = TRUE]
      [] tok = "mm"            -> [acc EXCEPT !.mi = n]
      [] tok = "ss"            -> [acc EXCEPT !.s = n]
      [] tok = "SSS"           -> [acc EXCEPT !.ms = n]
      [] OTHER                 -> acc

\* s[i..] against the tokens fmt[j..], anchored at both ends, as the regular
\* expression luxon builds from a format (case-insensitive).
RECURSIVE MatchTokens(_, _, _, _, _)
MatchTokens(s, i, fmt, j, acc) ==
    IF j > Len(fmt) THEN (IF i = Len(s) + 1 THEN acc ELSE NoParse)
    ELSE LET tok == fmt[j]
             digs(n) == RunLen(s, i, Digits) >= n
             take(n) == MatchTokens(s, i + n, fmt, j + 1,
                                    SetUnit(acc, tok, Num(SubSeq(s, i, i + n - 1))))
         IN CASE tok \in DOMAIN FixedDigits ->
                   IF digs(FixedDigits[tok]) THEN take(FixedDigits[tok]) ELSE NoParse
              [] tok \in OneOrTwo ->
                   IF digs(2) /\ take(2).ok THEN take(2)
                   ELSE IF digs(1) THEN take(1) ELSE NoParse
              [] tok = "MMM" ->
                   LET ms == {k \in 1..12 : StartsAtFold(s, i, MonthNames[k])}
                   IN IF ms = {} THEN NoParse
                      ELSE MatchTokens(s, i + 3, fmt, j + 1,
                                       [acc EXCEPT !.M = CHOOSE k \in ms : TRUE])
              [] tok = "a" ->
                   IF StartsAtFold(s, i, <<"a", "m">>)
                   THEN MatchTokens(s, i + 2, fmt, j + 1, [acc EXCEPT !.mer = 1])
                   ELSE IF StartsAtFold(s, i, <<"p", "m">>)
                   THEN MatchTokens(s, i + 2, fmt, j + 1, [acc EXCEPT !.mer = 2])
                   ELSE NoParse
              [] tok = "ZZ" ->
                   IF /\ i + 5 <= Len(s)
                      /\ s[i] \in {"+", "-"}
                      /\ RunLen(s, i + 1, Digits) >= 2
                      /\ s[i + 3] = ":"
                      /\ RunLen(s, i + 4, Digits) >= 2
                   THEN LET mag == 60 * Num(SubSeq(s, i + 1, i + 2))
                                   + Num(SubSeq(s, i + 4, i + 5))
                        IN MatchTokens(s, i + 6, fmt, j + 1,
                             [acc EXCEPT !.zone = "off",
                                         !.off = IF s[i] = "-" THEN 0 - mag ELSE mag])
                   ELSE NoParse
              [] tok = "'Z'" ->
                   IF i <= Len(s) /\ Fold(s[i]) = "z"
                   THEN MatchTokens(s, i + 1, fmt, j + 1, [acc EXCEPT !.zone = "Z"])
                   ELSE NoParse
              [] OTHER ->
                   IF i <= Len(s) /\ Fold(s[i]) = Fold(tok)
                   THEN MatchTokens(s, i + 1, fmt, j + 1, acc)
                   ELSE NoParse

\* A parser that reads the hour and ignores the meridiem.
Hour24AsRead(p) == p.h

\* The hour after the meridiem is applied, as luxon's parser does.
Hour24(p) ==
    IF p.h12 /\ p.mer = 2 /\ p.h < 12 THEN p.h + 12
    ELSE IF p.h12 /\ p.mer = 1 /\ p.h = 12 THEN 0
    ELSE p.h

\* date.isValid: every unit in its range.
ValidUnits(p) ==
    /\ p.M \in 1..12
    /\ p.D >= 1 /\ p.D <= DaysInMonth(p.Y, p.M)
    /\ Hour24(p) \in 0..23
    /\ p.mi \in 0..59
    /\ p.s \in 0..59

\* DateTime.fromFormat(s, fmt, {zone: "UTC"})
fromFormat(s, fmt) ==
    LET p == MatchTokens(s, 1, fmt, 1, EmptyParse)
    IN IF p.ok /\ ValidUnits(p) THEN [p EXCEPT !.h = Hour24(p), !.h12 = FALSE]
       ELSE NoParse

\* The formats of convertAlchemyDate, in the order the code lists them.
FmtAlchemy == <<"MMM", " ", "dd", " ", "yyyy", " ", "hh", ":", "mm", " ", "a">>

FmtIsoZ == <<"yyyy", "-", "MM", "-", "dd", "T", "HH", ":", "mm", ":", "ss", "'Z'">>

FmtIsoMsZ == <<"yyyy", "-", "MM", "-", "dd", "T", "HH", ":", "mm", ":", "ss",
               ".", "SSS", "'Z'">>

FmtSql == <<"yyyy", "-", "MM", "-", "dd", " ", "HH", ":", "mm", ":", "ss">>

FmtUs24 == <<"M", "/", "d", "/", "yyyy", " ", "HH", ":", "mm", ":", "ss">>

FmtUs12 == <<"M", "/", "d", "/", "yyyy", " ", "h", ":", "mm", " ", "a">>

FormatsG == <<FmtAlchemy, FmtIsoZ, FmtIsoMsZ>>

FormatsS == <<FmtAlchemy, FmtIsoZ, FmtIsoMsZ, FmtSql, FmtUs24, FmtUs12>>

Formats(v) == IF v = "G" THEN FormatsG ELSE FormatsS

\* The extended calendar-date shapes of ISO 8601 that DateTime.fromISO reads:
\* a date, optionally a time to the minute, second or millisecond, and with a
\* time optionally Z or a +HH:mm offset.  (Week dates, ordinal dates and the
\* basic format, which fromISO reads too, are left out of the modelled inputs.)
IsoDate == <<"yyyy", "-", "MM", "-", "dd">>

IsoTimes == {<<"T", "HH", ":", "mm">>,
             <<"T", "HH", ":", "mm", ":", "ss">>,
             <<"T", "HH", ":", "mm", ":", "ss", ".", "SSS">>}

IsoZones == {<<>>, <<"'Z'">>, <<"ZZ">>}

IsoFormats == {IsoDate} \cup {IsoDate \o t \o z : t \in IsoTimes, z \in IsoZones}

\* DateTime.fromISO(s, {zone: "UTC"}); ISO's T and Z are upper case only.
fromISO(s) ==
    LET hits == {f \in IsoFormats : fromFormat(s, f).ok}
    IN IF hits = {} \/ Includes(s, <<"t">>) \/ Includes(s, <<"z">>) THEN NoParse
       ELSE fromFormat(s, CHOOSE f \in hits : TRUE)

\* The first format of fmts[k..] that parses s, else NoParse (the for loop).
RECURSIVE FirstFormat(_, _, _)
FirstFormat(s, fmts, k) ==
    IF k > Len(fmts) THEN NoParse
    ELSE IF fromFormat(s, fmts[k]).ok THEN fromFormat(s, fmts[k])
    ELSE FirstFormat(s, fmts, k + 1)

\* The parse convertAlchemyDate settles on: a listed format, else ISO.
ParseDate(v, s) ==
    IF FirstFormat(s, Formats(v), 1).ok THEN FirstFormat(s, Formats(v), 1)
    ELSE fromISO(s)

\* dateString.includes('T') && (includes('Z') || includes('+'))
LooksIso(s) ==
    Includes(s, <<"T">>) /\ (Includes(s, <<"Z">>) \/ Includes(s, <<"+">>))

\* convertAlchemyDate: kind "iso" is the parsed date re-zoned, "raw" the
\* input handed back unchanged by the catch block, "null" a failure.
\* googleMiddleware.js returns null without throwing, so its catch block and
\* the hand-back in it are not reached from an invalid string.
convertAlchemyDate(v, s) ==
    IF ~Truthy(s) THEN [kind |-> "null", raw |-> s, parse |-> NoParse]
    ELSE IF ParseDate(v, s).ok THEN [kind |-> "iso", raw |-> s, parse |-> ParseDate(v, s)]
    ELSE IF v # "G" /\ LooksIso(s) THEN [kind |-> "raw", raw |-> s, parse |-> NoParse]
    ELSE [kind |-> "null", raw |-> s, parse |-> NoParse]

\* A handler that takes every conversion for a success.
BadDatesNever(v, body) == FALSE

\* if (!startISO || !endISO)
BadDates(v, body) ==
    \/ convertAlchemyDate(v, StartTime(v, body)).kind = "null"
    \/ convertAlchemyDate(v, EndTime(v, body)).kind = "null"

-----------------------------------------------------------------------------
(* Instants and their text: luxon's toUTC, setZone, toISO and toFormat *)

\* Days from 1970-01-01 to a date of the Gregorian calendar.
DaysFromCivil(y, m, d) ==
    LET yy == IF m <= 2 THEN y - 1 ELSE y
        era == yy \div 400
        yoe == yy - era * 400
        mp == IF m > 2 THEN m - 3 ELSE m + 9
        doy == (153 * mp + 2) \div 5 + d - 1
        doe == yoe * 365 + yoe \div 4 - yoe \div 100 + doy
    IN era * 146097 + doe - 719468

\* The date that lies z days after 1970-01-01.
CivilFromDays(z) ==
    LET zz == z + 719468
        era == zz \div 146097
        doe == zz - era * 146097
        yoe == (doe - doe \div 1460 + doe \div 36524 - doe \div 146096) \div 365
        doy == doe - (365 * yoe + yoe \div 4 - yoe \div 100)
        mp == (5 * doy + 2) \div 153
        m == IF mp < 10 THEN mp + 3 ELSE mp - 9
    IN [Y |-> yoe + era * 400 + (IF m <= 2 THEN 1 ELSE 0), M |-> m,
        D |-> doy - (153 * mp + 2) \div 5 + 1]

\* The offset, in minutes, a parse was read under: the one it spells, else
\* that of the zone option, which every call sets to UTC.
OffsetOf(p) == IF p.zone = "off" THEN p.off ELSE 0

\* The instant of a parse, in seconds since 1970-01-01T00:00:00Z.
Instant(p) ==
    ((DaysFromCivil(p.Y, p.M, p.D) * 24 + p.h) * 60 + p.mi - OffsetOf(p)) * 60 + p.s

\* The wall-clock fields of instant t in a zone off minutes ahead of UTC.
LocalFields(t, off) ==
    LET tt == t + off * 60
        days == tt \div 86400
        rest == tt - days * 86400
        date == CivilFromDays(days)
    IN [Y |-> date.Y, M |-> date.M, D |-> date.D,
        h |-> rest \div 3600, mi |-> (rest % 3600) \div 60, s |-> rest % 60]

\* n written with w digits.
RECURSIVE Pad(_, _)
Pad(n, w) == IF w = 0 THEN <<>> ELSE Pad(n \div 10, w - 1) \o <<DigitSeq[(n % 10) + 1]>>

\* yyyy-MM-dd'T'HH:mm:ss of the fields f
DateTimeText(f) ==
    Pad(f.Y, 4) \o <<"-">> \o Pad(f.M, 2) \o <<"-">> \o Pad(f.D, 2) \o <<"T">>
    \o Pad(f.h, 2) \o <<":">> \o Pad(f.mi, 2) \o <<":">> \o Pad(f.s, 2)

\* The offset as toISO spells it: Z for UTC, else +HH:mm or -HH:mm.
OffsetText(off) ==
    IF off = 0 THEN <<"Z">>
    ELSE LET mag == IF off < 0 THEN 0 - off ELSE off
         IN <<(IF off < 0 THEN "-" ELSE "+")>> \o Pad(mag \div 60, 2) \o <<":">> \o Pad(mag % 60, 2)

\* The zones of the modelled requests, each with its offset from UTC in
\* minutes on the days of the modelled timestamps (standard time).
ZoneOffsets ==
    ("UTC" :> 0) @@ ("America/New_York" :> (0 - 300)) @@ ("Asia/Kolkata" :> 330)

\* date.setZone(timeZone).toISO(): the instant of parse p, spelled in the zone
toISO(p, zone) ==
    DateTimeText(LocalFields(Instant(p), ZoneOffsets[zone]))
    \o <<".">> \o Pad(p.ms, 3) \o OffsetText(ZoneOffsets[zone])

\* date.toUTC().toFormat("yyyy-MM-dd'T'HH:mm:ss'Z'")
toUtcFormat(p) == DateTimeText(LocalFields(Instant(p), 0)) \o <<"Z">>

\* convertToAlchemyFormat of alchemyMiddleware.js: Null for a string that
\* fromISO does not read.
convertToAlchemyFormat(dateString) ==
    IF ~Truthy(dateString) \/ ~fromISO(dateString).ok THEN Null
    ELSE toUtcFormat(fromISO(dateString))

\* What convertAlchemyDate returns: the parsed date spelled in the zone, the
\* string as it came, or null.
ConvertedText(v, s, zone) ==
    LET c == convertAlchemyDate(v, s)
    IN CASE c.kind = "iso" -> toISO(c.parse, zone)
         [] c.kind = "raw" -> c.raw
         [] OTHER          -> Null

MonthText == << <<"J", "a", "n">>, <<"F", "e", "b">>, <<"M", "a", "r">>,
                <<"A", "p", "r">>, <<"M", "a", "y">>, <<"J", "u", "n">>,
                <<"J", "u", "l">>, <<"A", "u", "g">>, <<"S", "e", "p">>,
                <<"O", "c", "t">>, <<"N", "o", "v">>, <<"D", "e", "c">> >>

\* n written without padding (n < 100).
Dec(n) == IF n < 10 THEN Pad(n, 1) ELSE Pad(n, 2)

\* The hour of the 12-hour clock.
Hour12(h) == IF h % 12 = 0 THEN 12 ELSE h % 12

\* One token of a format, written for the fields f.
FormatToken(f, tok) ==
    CASE tok = "yyyy" -> Pad(f.Y, 4)
      [] tok = "MMM"  -> MonthText[f.M]
      [] tok = "MM"   -> Pad(f.M, 2)
      [] tok = "M"    -> Dec(f.M)
      [] tok = "dd"   -> Pad(f.D, 2)
      [] tok = "d"    -> Dec(f.D)
      [] tok = "HH"   -> Pad(f.h, 2)
      [] tok = "hh"   -> Pad(Hour12(f.h), 2)
      [] tok = "h"    -> Dec(Hour12(f.h))
      [] tok = "mm"   -> Pad(f.mi, 2)
      [] tok = "ss"   -> Pad(f.s, 2)
      [] tok = "SSS"  -> Pad(f.ms, 3)
      [] tok = "a"    -> IF f.h < 12 THEN <<"A", "M">> ELSE <<"P", "M">>
      [] tok = "'Z'"  -> <<"Z">>
      [] OTHER        -> <<tok>>

\* A UTC timestamp written in one of the formats convertAlchemyDate lists,
\* as the registry writes its dates (luxon's toFormat, token by token).
RECURSIVE toFormat(_, _, _)
toFormat(f, fmt, j) ==
    IF j > Len(fmt) THEN <<>> ELSE FormatToken(f, fmt[j]) \o toFormat(f, fmt, j + 1)

-----------------------------------------------------------------------------
(* The request bodies the model sends *)

TxtEr15 == <<"E", "R", "1", "5", " ", "-", " ", "H", "P", "L", "C">>

TxtEr16 == <<"E", "R", "1", "6", " ", "-", " ", "G", "C">>

TxtSync == <<"T", "e", "a", "m", " ", "s", "y", "n", "c">>

TxtWater == <<"W", "a", "t", "e", "r", " ", "t", "e", "s", "t">>

TxtWaterMarked == TxtWater \o <<" ">> \o RecordIdLabel \o <<" ", "5", "0", "9", "8", "2">>

Txt50982 == <<"5", "0", "9", "8", "2">>

Txt60111 == <<"6", "0", "1", "1", "1">>

\* "Feb 27 2025 07:00 PM" and "Feb 27 2025 08:00 PM"
TxtSeven == <<"F", "e", "b", " ", "2", "7", " ", "2", "0", "2", "5", " ",
              "0", "7", ":", "0", "0", " ", "P", "M">>

TxtEight == <<"F", "e", "b", " ", "2", "7", " ", "2", "0", "2", "5", " ",
              "0", "8", ":", "0", "0", " ", "P", "M">>

TxtSoon == <<"s", "o", "o", "n">>

\* The zone name holds no digit and is never matched: one token.
TxtZone == <<"America/New_York">>

Bodies == <<
    \* 1: the README's and the spec's example, without a marker
    <<Fld("summary", TxtEr15), Fld("description", TxtWater),
      Fld("StartUse", TxtSeven), Fld("EndUse", TxtEight), Fld("timeZone", TxtZone)>>,
    \* 2: an explicit identifier, repeated by the marker in the description,
    \* and a prefix code that disagrees with it
    <<Fld("recordId", Txt50982), Fld("summary", TxtEr15), Fld("description", TxtWaterMarked),
      Fld("StartUse", TxtSeven), Fld("EndUse", TxtEight)>>,
    \* 3: no end under any alias, and nothing that names a record
    <<Fld("summary", TxtSync), Fld("StartUse", TxtSoon)>>,
    \* 4: a start no format reads
    <<Fld("summary", TxtEr15), Fld("StartUse", TxtSoon), Fld("EndUse", TxtEight)>>,
    \* 5: a second record, in the calendar's own shape
    <<Fld("id", Txt60111), Fld("summary", TxtEr16),
      Nested("start", TxtSeven), Nested("end", TxtEight)>>,
    \* 6: nothing that names a record, and dates that parse
    <<Fld("summary", TxtSync), Fld("description", TxtWater),
      Fld("StartUse", TxtSeven), Fld("EndUse", TxtEight)>>
>>

BodyIds == 1..Len(Bodies)

TxtIsoSeven == <<"2", "0", "2", "5", "-", "0", "2", "-", "2", "7", "T", "1", "9", ":",
                 "0", "0", ":", "0", "0", "-", "0", "5", ":", "0", "0">>

TxtIsoEight == <<"2", "0", "2", "5", "-", "0", "2", "-", "2", "7", "T", "2", "0", ":",
                 "0", "0", ":", "0", "0", "-", "0", "5", ":", "0", "0">>

\* The field names and the status value of config.js: one token each.
TxtEventStatus == <<"EventStatus">>

TxtStartUse == <<"StartUse">>

TxtEndUse == <<"EndUse">>

TxtRemoved == <<"Removed from Calendar">>

\* { identifier, rows: [{ row: 0, values: [{ value }] }] }
Field(identifier, value) == [identifier |-> identifier, value |-> value]

\* The bodies the calendar side sends to PUT /update-alchemy.  "fields" is
\* the array req.body.fields.
AlchemyBodies == <<
    \* 1: an event was moved
    <<Fld("recordId", Txt50982), Nested("start", TxtIsoSeven), Nested("end", TxtIsoEight)>>,
    \* 2: an event was cancelled
    <<Fld("recordId", Txt50982), Fld("fields", <<Field(TxtEventStatus, TxtRemoved)>>)>>,
    \* 3: no record id
    <<Nested("start", TxtIsoSeven), Nested("end", TxtIsoEight)>>,
    \* 4: a start that is not ISO
    <<Fld("recordId", Txt60111), Nested("start", TxtSoon), Nested("end", TxtIsoEight)>>,
    \* 5: an event was cancelled, by a sender that spells the status as
    \* DELETE /delete-alchemy does and sends the start along
    <<Fld("recordId", Txt60111),
      Fld("fields", <<Field(TxtEventStatus, <<"Removed From Calendar">>),
                      Field(TxtStartUse, TxtIsoSeven)>>)>>
>>

AlchemyBodyIds == 1..Len(AlchemyBodies)

-----------------------------------------------------------------------------
(* State *)

\* Bounds of the model.
MaxEvents == 2

MaxRequests == 2

\* The requests that may be in flight at the same time.
Reqs == {1, 2}

\* The versions of the POST /create-event handler.  A behaviour runs one of
\* them, or the PUT /update-alchemy handler of alchemyMiddleware.js ("A") or
\* of part_012 ("C").
Variants == {"G", "S", "E"}

Events == 1..MaxEvents

\* const RECENT_EVENT_EXPIRY = 5 * 60 * 1000, in milliseconds
RECENT_EVENT_EXPIRY == 300000

\* One step of the clock, in milliseconds: two steps outlast the expiry,
\* one does not.
TickMs == (2 * RECENT_EVENT_EXPIRY) \div 3

\* The clock stops after the steps it takes to outlast the expiry.
MaxTicks == (RECENT_EVENT_EXPIRY \div TickMs) + 1

VARIABLES
    variant,    \* which handler runs
    disk,       \* whether writes of the tracking file succeed
    mapping,    \* eventMappings / eventTrackingData: identifier -> event id
    file,       \* the content of the tracking file
    recent,     \* recentEvents: identifier -> [ev, ts]   (server.js, part_000)
    ticks,      \* the clock, in steps of TickMs
    remote,     \* the calendar: event id -> "none", "live", "gone", "cancelled"
    origin,     \* history: the identifier each event was created for
    req,        \* each request in flight: its position and locals
    last,       \* the request answered by the step just taken, with its answer
    served,     \* history: the requests received so far
    seq,        \* history: so far the requests ran one at a time
    areq,       \* each PUT /update-alchemy request in flight
    alast,      \* the PUT /update-alchemy request answered by the step just taken
    registry,   \* the registry: record id -> the fields last written to it
    conv,       \* a text on its way through a function of the handlers
                \* (DateSpec, NormalizeSpec, MarkerSpec)
    boot,       \* history: the tracking file as the process found it at start
    peer,       \* the mappings in the memory of a second process on the same file
    content,    \* what the calendar holds of each event (FindSpec)
    op,         \* the DELETE /tracked-events/:erCode answered by the step just taken
    env         \* history: what has interfered so far.  "quiet": nothing, and
                \* every remote call succeeded.  "cleared": only operator
                \* clears, and nothing was mapped since the last one.
                \* "reset": only operator clears, and mappings were put
                \* since.  "other": a remote call failed, or somebody deleted
                \* or cancelled an event or removed a single mapping.

vars == <<variant, disk, mapping, file, recent, ticks, remote, origin, req,
          last, served, seq, env, areq, alast, registry, op, conv, boot, peer, content>>

Now == ticks * TickMs

EmptyMap == [x \in {} |-> 0]

\* obj[key], with 0 for undefined
Lookup(m, id) == IF id \in DOMAIN m THEN m[id] ELSE 0

\* A put that leaves the one mapping it writes.
PutAlone(m, id, e) == [x \in {id} |-> e]

\* A put that writes nothing.
PutNothing(m, id, e) == m

\* A store that keeps the entry it already holds.
PutKeepFirst(m, id, e) ==
    [x \in DOMAIN m \cup {id} |-> IF x \in DOMAIN m THEN m[x] ELSE e]

\* obj[key] = e
Put(m, id, e) == [x \in DOMAIN m \cup {id} |-> IF x = id THEN e ELSE m[x]]

\* A removal that forgets every mapping.
RemoveAll(m, id) == EmptyMap

\* delete obj[key]
Remove(m, id) == [x \in DOMAIN m \ {id} |-> m[x]]

\* A write that reaches the file although the disk refuses it.
saveMappingsAnyway(m, f, written) == m

\* A save that adds the mappings of the memory to those of the file.
saveMappingsMerged(m, f, written) == IF written THEN m @@ f ELSE f

\* saveMappings / saveEventTracking: the file is rewritten from memory; a
\* failed write (written = FALSE) is logged and leaves the file as it was.
saveMappings(m, f, written) == IF written THEN m ELSE f

\* recentEvents.set and the sweep of the expired entries that follows it
\* A cache that keeps the event an entry already names.
addRecentEventKeepFirst(c, id, ev, t) ==
    IF id \in DOMAIN c THEN c ELSE [x \in {id} |-> [ev |-> ev, ts |-> t]] @@ c

addRecentEvent(c, id, ev, t) ==
    LET set == [x \in DOMAIN c \cup {id} |->
                    IF x = id THEN [ev |-> ev, ts |-> t] ELSE c[x]]
        keep == {x \in DOMAIN set : ~(t - set[x].ts > RECENT_EVENT_EXPIRY)}
    IN [x \in keep |-> set[x]]

\* A cache whose entries never expire.
getRecentEventAnyAge(c, id, t) == IF id \in DOMAIN c THEN c[id].ev ELSE 0

\* getRecentEvent: the entry's event unless it is older than the expiry
getRecentEvent(c, id, t) ==
    IF id \in DOMAIN c /\ t - c[id].ts <= RECENT_EVENT_EXPIRY THEN c[id].ev ELSE 0

\* A placeholder that is the same for every request.
PlaceholderFixed(n) == <<"alchemyEvent_", DigitSeq[1]>>

\* The placeholder of the n-th request: alchemyEvent_<Date.now()>_<random>
Placeholder(n) == <<"alchemyEvent_", DigitSeq[n + 1]>>

\* The event id the calendar hands out next (0: none left within the bound).
NextEvent ==
    IF \E e \in Events : remote[e] = "none"
    THEN CHOOSE e \in Events : remote[e] = "none" /\ \A d \in Events : d < e => remote[d] # "none"
    ELSE 0

\* The tables of what each handler reads from each body.
IdOf == [v \in Variants |-> [p \in BodyIds |-> ResolveId(v, Bodies[p])]]

MissingOf == [v \in Variants |-> [p \in BodyIds |-> MissingTimes(v, Bodies[p])]]

BadOf == [v \in Variants |-> [p \in BodyIds |-> BadDates(v, Bodies[p])]]

\* A request's locals.  pc: where it waits.  p: its body.  id: erCode /
\* recordId / eventId.  tgt: the event its PATCH addresses.
\* History: wiped (it arrived right after an operator's clear), wrote (what
\* it did last to the mapping of id), tok / upd / cre (remote calls it
\* issued), tout (how its token refresh ended), uout (what its PATCH was
\* answered).
Idle == [pc |-> "idle", p |-> 0, id |-> Null, tgt |-> 0,
         wiped |-> FALSE, wrote |-> "none", tok |-> 0, upd |-> 0, cre |-> 0,
         tout |-> "none", uout |-> "none"]

\* A PUT /update-alchemy request's locals.  History: tok / put (remote calls
\* it issued), tout (how its token refresh ended).
AIdle == [pc |-> "idle", p |-> 0, recordId |-> Null, tok |-> 0, put |-> 0,
          tout |-> "none"]

\* No date is on its way.  x: the timestamp, fmt: the format the registry
\* writes it in, zone: the time zone of the request, text: x in fmt, iso:
\* what convertAlchemyDate makes of text, back: what convertToAlchemyFormat
\* makes of iso.
NoConv == [pc |-> "none", x |-> NoParse, fmt |-> 0, zone |-> "UTC", text |-> Null,
           iso |-> Null, back |-> Null]

\* No event holds anything.  p: the body last posted or patched to the
\* event.  rid: its extendedProperties.private.alchemyRecordId.
NoContent == [e \in Events |-> [p |-> 0, rid |-> Null]]

\* The tracking file at the start of the process.  exists: fs.existsSync.
\* readable: fs.readFileSync returns.  parses: JSON.parse returns.  content:
\* the mappings its bytes held when last written whole.
Absent == [exists |-> FALSE, readable |-> FALSE, parses |-> FALSE, content |-> EmptyMap]

\* No DELETE /tracked-events/:erCode was answered by the step just taken.
\* History: was / fwas (the mappings in memory and in the file before it).
NoOp == [status |-> 0, erCode |-> Null, was |-> EmptyMap, fwas |-> EmptyMap]

\* No PUT /update-alchemy request was answered by the step just taken.
ANoLast == [status |-> 0, rq |-> AIdle]

\* No request was answered by the step just taken.  History: was (the
\* mappings in memory before the step).
NoLast == [status |-> 0, action |-> "none", ev |-> 0, rq |-> Idle, was |-> EmptyMap]

OpAnswer(status, erCode) ==
    [status |-> status, erCode |-> erCode, was |-> mapping, fwas |-> file]

\* res.status(status).json({action, event: {id: ev}}) ends the request rq.
Answer(status, action, ev, rq) ==
    [status |-> status, action |-> action, ev |-> ev, rq |-> rq, was |-> mapping]

Init ==
    /\ variant \in Variants \cup {"A", "C"}
    /\ areq = [r \in Reqs |-> AIdle]
    /\ alast = ANoLast
    /\ registry = EmptyMap
    /\ boot = Absent
    /\ peer = EmptyMap
    /\ op = NoOp
    /\ conv = NoConv
    /\ disk \in BOOLEAN
    /\ mapping = EmptyMap
    /\ file = EmptyMap
    /\ recent = EmptyMap
    /\ ticks = 0
    /\ remote = [e \in Events |-> "none"]
    /\ origin = [e \in Events |-> Null]
    /\ req = [r \in Reqs |-> Idle]
    /\ last = NoLast
    /\ served = 0
    /\ content = NoContent
    /\ seq = TRUE
    /\ env = "quiet"

\* No other request is in flight.
Alone(r) == \A q \in Reqs \ {r} : req[q].pc = "idle"

\* The slot a new request takes: the first free one.
FreeSlot(r) == req[r].pc = "idle" /\ \A q \in Reqs : q < r => req[q].pc # "idle"

\* The history after a remote call that succeeded or not.
EnvAfterCall(ok) == IF ok THEN env ELSE "other"

\* The history after a mapping was put.
EnvAfterPut == IF env = "cleared" THEN "reset" ELSE env

\* The history after the operator cleared the mappings.
EnvAfterClear == IF env = "other" THEN "other" ELSE "cleared"

\* The counterparts created so far for an identifier.
Counterparts(id) == {e \in Events : Truthy(id) /\ origin[e] = id}

-----------------------------------------------------------------------------
(* POST /create-event of googleMiddleware.js *)

\* A lookup that never finds a mapping.
ExistingGMiss(m, erCode) == 0

\* A handler that goes on without a token.
TokenAssumed(ok) == TRUE

\* getGoogleAccessToken: the token (truthy) when the refresh answered ok,
\* null when it failed; its catch block swallows the error.
getGoogleAccessToken(ok) == ok

\* How a token refresh ended.
TokenOutcome(ok) == IF ok THEN "ok" ELSE "failed"

\* erCode && eventMappings[erCode]: the event to update, 0 for none
ExistingG(m, erCode) == IF Truthy(erCode) THEN Lookup(m, erCode) ELSE 0

\* What the calendar may answer to a PATCH of event e.  "error" is a non-2xx,
\* non-404 answer or a failed fetch; "error404" is such an error whose text
\* happens to hold "404".
UpdateOutcomes(e) ==
    (IF remote[e] = "gone" THEN {"notfound"} ELSE {"ok"}) \cup {"error", "error404"}

\* A handler that does not look at response.ok.
ResponseOkUnchecked(out) == TRUE

\* response.ok of the calendar's answer to the POST (createNewEvent,
\* createGoogleEvent): anything else is thrown as an error.
ResponseOk(out) == out = "ok"

\* What the calendar may answer to a POST of a new event.
CreateOutcomes == (IF NextEvent # 0 THEN {"ok"} ELSE {}) \cup {"error", "error404"}

\* Lines 150-192: the body is read, start and end are required, the ER code
\* is extracted and the access token is asked for.
ReceiveG(r, p) ==
    /\ variant = "G"
    /\ FreeSlot(r)
    /\ served < MaxRequests
    /\ served' = served + 1
    /\ LET erCode == IdOf["G"][p]
       IN IF MissingOf["G"][p]
          THEN /\ last' = Answer(400, "none", 0, [Idle EXCEPT !.p = p])
               /\ UNCHANGED req
          ELSE /\ req' = [req EXCEPT ![r] =
                            [Idle EXCEPT !.pc = "token", !.p = p, !.id = erCode,
                                         !.wiped = (env = "cleared"), !.tok = 1]]
               /\ last' = NoLast
    /\ seq' = (seq /\ Alone(r))
    /\ op' = NoOp
    /\ UNCHANGED <<variant, disk, mapping, file, recent, ticks, remote, origin, env,
                   areq, alast, registry, conv, boot, peer, content>>

\* Lines 189-229: the token arrives (or not), the dates are converted, and
\* the handler either patches the mapped event or posts a new one.
TokenG(r, ok) ==
    /\ variant = "G"
    /\ req[r].pc = "token"
    /\ LET eventId == ExistingG(mapping, req[r].id)
           rq == [req[r] EXCEPT !.tout = TokenOutcome(ok)]
       IN IF ~getGoogleAccessToken(ok)
          THEN /\ last' = Answer(500, "none", 0, rq)
               /\ req' = [req EXCEPT ![r] = Idle]
          ELSE IF BadOf["G"][req[r].p]
          THEN /\ last' = Answer(400, "none", 0, rq)
               /\ req' = [req EXCEPT ![r] = Idle]
          ELSE IF eventId # 0
          THEN /\ req' = [req EXCEPT ![r] = [rq EXCEPT !.pc = "update", !.tgt = eventId,
                                                       !.upd = 1]]
               /\ last' = NoLast
          ELSE /\ req' = [req EXCEPT ![r] = [rq EXCEPT !.pc = "create", !.cre = 1]]
               /\ last' = NoLast
    /\ env' = EnvAfterCall(ok)
    /\ op' = NoOp
    /\ UNCHANGED <<variant, disk, mapping, file, recent, ticks, remote, origin, served, seq,
                   areq, alast, registry, conv, boot, peer, content>>

\* Lines 231-284: the answer to the PATCH.  A 404, and any error whose text
\* holds "404", drops the mapping (in memory only) and posts a new event.
UpdateG(r, out) ==
    /\ variant = "G"
    /\ req[r].pc = "update"
    /\ out \in UpdateOutcomes(req[r].tgt)
    /\ CASE out = "ok" ->
              /\ last' = Answer(200, "updated", req[r].tgt, [req[r] EXCEPT !.uout = out])
              /\ req' = [req EXCEPT ![r] = Idle]
              /\ UNCHANGED mapping
         [] out = "notfound" ->
              /\ mapping' = Remove(mapping, req[r].id)
              /\ req' = [req EXCEPT ![r].pc = "recreateT", ![r].cre = 1,
                                    ![r].wrote = "removed", ![r].uout = out]
              /\ last' = NoLast
         [] out = "error404" ->
              /\ mapping' = Remove(mapping, req[r].id)
              /\ req' = [req EXCEPT ![r].pc = "recreateC", ![r].cre = 1,
                                    ![r].wrote = "removed", ![r].uout = out]
              /\ last' = NoLast
         [] out = "error" ->
              /\ last' = Answer(500, "none", 0, [req[r] EXCEPT !.uout = out])
              /\ req' = [req EXCEPT ![r] = Idle]
              /\ UNCHANGED mapping
    /\ env' = EnvAfterCall(out = "ok")
    /\ op' = NoOp
    /\ UNCHANGED <<variant, disk, file, recent, ticks, remote, origin, served, seq,
                   areq, alast, registry, conv, boot, peer, content>>

\* createNewEvent and what follows it (lines 118-147, 238-246, 272-279,
\* 290-297).  The POST of line 238 sits inside the try block of the update,
\* so its failure reaches the catch of line 265, which posts once more when
\* the error text holds "404".
CreateG(r, out) ==
    /\ variant = "G"
    /\ req[r].pc \in {"create", "recreateT", "recreateC"}
    /\ out \in CreateOutcomes
    /\ LET erCode == req[r].id
           e == NextEvent
           action == IF req[r].pc = "create" THEN "created" ELSE "recreated"
       IN /\ remote' = IF out = "ok" THEN [remote EXCEPT ![e] = "live"] ELSE remote
          /\ origin' = IF out = "ok" THEN [origin EXCEPT ![e] = erCode] ELSE origin
          /\ CASE ResponseOk(out) ->
                 /\ IF Truthy(erCode)
                    THEN /\ mapping' = Put(mapping, erCode, e)
                         /\ file' = saveMappings(mapping', file, disk)
                         /\ last' = Answer(200, action, e, [req[r] EXCEPT !.wrote = "put"])
                    ELSE /\ UNCHANGED <<mapping, file>>
                         /\ last' = Answer(200, action, e, req[r])
                 /\ req' = [req EXCEPT ![r] = Idle]
            [] ~ResponseOk(out) /\ out = "error404" /\ req[r].pc = "recreateT" ->
                 /\ mapping' = Remove(mapping, erCode)
                 /\ req' = [req EXCEPT ![r].pc = "recreateC", ![r].cre = @ + 1]
                 /\ last' = NoLast
                 /\ UNCHANGED file
            [] OTHER ->
                 /\ last' = Answer(500, "none", 0, req[r])
                 /\ req' = [req EXCEPT ![r] = Idle]
                 /\ UNCHANGED <<mapping, file>>
    /\ env' = IF out = "ok" /\ Truthy(req[r].id) THEN EnvAfterPut ELSE EnvAfterCall(out = "ok")
    /\ op' = NoOp
    /\ UNCHANGED <<variant, disk, recent, ticks, served, seq,
                   areq, alast, registry, conv, boot, peer, content>>

\* DELETE /tracked-events (lines 309-318)
ClearG ==
    /\ variant = "G"
    /\ mapping' = EmptyMap
    /\ file' = saveMappings(mapping', file, disk)
    /\ last' = NoLast
    /\ env' = EnvAfterClear
    /\ op' = NoOp
    /\ UNCHANGED <<variant, disk, recent, ticks, remote, origin, req, served, seq,
                   areq, alast, registry, conv, boot, peer, content>>

\* DELETE /tracked-events/:erCode (lines 320-339)
DeleteOneG(erCode) ==
    /\ variant = "G"
    /\ IF Lookup(mapping, erCode) # 0
       THEN /\ mapping' = Remove(mapping, erCode)
            /\ file' = saveMappings(mapping', file, disk)
       ELSE UNCHANGED <<mapping, file>>
    /\ op' = OpAnswer(IF Lookup(mapping, erCode) # 0 THEN 200 ELSE 404, erCode)
    /\ last' = NoLast
    /\ env' = "other"
    /\ UNCHANGED <<variant, disk, recent, ticks, remote, origin, req, served, seq,
                   areq, alast, registry, conv, boot, peer, content>>

-----------------------------------------------------------------------------
(* POST /create-event of server.js and of part_000 *)

\* The identifier the n-th request runs under: the resolved one, else a
\* fresh placeholder (lines 370-374).
RequestId(v, p, n) == IF Truthy(IdOf[v][p]) THEN IdOf[v][p] ELSE Placeholder(n)

\* A lookup that asks the cache of recent events only.
ExistingSCacheOnly(c, m, id, t) == getRecentEvent(c, id, t)

\* recentEventId || trackedEventId (lines 434-446)
ExistingS(c, m, id, t) ==
    IF getRecentEvent(c, id, t) # 0 THEN getRecentEvent(c, id, t) ELSE Lookup(m, id)

\* Lines 275-396: the body is read and the access token is asked for.
ReceiveS(r, p) ==
    /\ variant \in {"S", "E"}
    /\ FreeSlot(r)
    /\ served < MaxRequests
    /\ served' = served + 1
    /\ LET recordId == RequestId(variant, p, served')
       IN IF MissingOf[variant][p]
          THEN /\ last' = Answer(400, "none", 0, [Idle EXCEPT !.p = p, !.id = recordId])
               /\ UNCHANGED req
          ELSE /\ req' = [req EXCEPT ![r] =
                            [Idle EXCEPT !.pc = "token", !.p = p, !.id = recordId,
                                         !.wiped = (env = "cleared"), !.tok = 1]]
               /\ last' = NoLast
    /\ seq' = (seq /\ Alone(r))
    /\ op' = NoOp
    /\ UNCHANGED <<variant, disk, mapping, file, recent, ticks, remote, origin, env,
                   areq, alast, registry, conv, boot, peer, content>>

\* Lines 396-453: token, dates, the duplicate check, then PATCH or POST.
TokenS(r, ok) ==
    /\ variant \in {"S", "E"}
    /\ req[r].pc = "token"
    /\ LET existingEventId == ExistingS(recent, mapping, req[r].id, Now)
           rq == [req[r] EXCEPT !.tout = TokenOutcome(ok)]
       IN IF ~getGoogleAccessToken(ok)
          THEN /\ last' = Answer(500, "none", 0, rq)
               /\ req' = [req EXCEPT ![r] = Idle]
          ELSE IF BadOf[variant][req[r].p]
          THEN /\ last' = Answer(400, "none", 0, rq)
               /\ req' = [req EXCEPT ![r] = Idle]
          ELSE IF existingEventId # 0
          THEN /\ req' = [req EXCEPT ![r] = [rq EXCEPT !.pc = "update",
                                                       !.tgt = existingEventId, !.upd = 1]]
               /\ last' = NoLast
          ELSE /\ req' = [req EXCEPT ![r] = [rq EXCEPT !.pc = "create", !.cre = 1]]
               /\ last' = NoLast
    /\ env' = EnvAfterCall(ok)
    /\ op' = NoOp
    /\ UNCHANGED <<variant, disk, mapping, file, recent, ticks, remote, origin, served, seq,
                   areq, alast, registry, conv, boot, peer, content>>

\* Lines 229-272 and 450-480: the answer to the PATCH.  Success refreshes
\* the tracking; a 404 (null) and every thrown error alike go on to the POST.
UpdateS(r, out) ==
    /\ variant \in {"S", "E"}
    /\ req[r].pc = "update"
    /\ out \in UpdateOutcomes(req[r].tgt)
    /\ IF out = "ok"
       THEN /\ mapping' = Put(mapping, req[r].id, req[r].tgt)
            /\ file' = saveMappings(mapping', file, disk)
            /\ recent' = addRecentEvent(recent, req[r].id, req[r].tgt, Now)
            /\ last' = Answer(200, "updated", req[r].tgt,
                               [req[r] EXCEPT !.wrote = "put", !.uout = out])
            /\ req' = [req EXCEPT ![r] = Idle]
            /\ env' = EnvAfterPut
       ELSE /\ req' = [req EXCEPT ![r].pc = "create", ![r].cre = 1, ![r].uout = out]
            /\ last' = NoLast
            /\ env' = "other"
            /\ UNCHANGED <<mapping, file, recent>>
    /\ op' = NoOp
    /\ UNCHANGED <<variant, disk, ticks, remote, origin, served, seq,
                   areq, alast, registry, conv, boot, peer, content>>

\* createGoogleEvent and the answer (lines 183-227, 483-500)
CreateS(r, out) ==
    /\ variant \in {"S", "E"}
    /\ req[r].pc = "create"
    /\ out \in CreateOutcomes
    /\ LET e == NextEvent
       IN /\ remote' = IF out = "ok" THEN [remote EXCEPT ![e] = "live"] ELSE remote
          /\ origin' = IF out = "ok" THEN [origin EXCEPT ![e] = req[r].id] ELSE origin
          /\ IF ResponseOk(out)
             THEN /\ mapping' = Put(mapping, req[r].id, e)
                  /\ file' = saveMappings(mapping', file, disk)
                  /\ recent' = addRecentEvent(recent, req[r].id, e, Now)
                  /\ last' = Answer(200, "created", e, [req[r] EXCEPT !.wrote = "put"])
             ELSE /\ last' = Answer(500, "none", 0, req[r])
                  /\ UNCHANGED <<mapping, file, recent>>
    /\ req' = [req EXCEPT ![r] = Idle]
    /\ env' = IF out = "ok" THEN EnvAfterPut ELSE "other"
    /\ op' = NoOp
    /\ UNCHANGED <<variant, disk, ticks, served, seq,
                   areq, alast, registry, conv, boot, peer, content>>

\* A clear that forgets recentEvents.clear().
ClearSKeepRecent ==
    /\ variant \in {"S", "E"}
    /\ mapping' = EmptyMap
    /\ file' = saveMappings(mapping', file, disk)
    /\ last' = NoLast
    /\ env' = EnvAfterClear
    /\ op' = NoOp
    /\ UNCHANGED <<variant, disk, recent, ticks, remote, origin, req, served, seq,
                   areq, alast, registry, conv, boot, peer, content>>

\* DELETE /tracked-events (lines 515-525)
ClearS ==
    /\ variant \in {"S", "E"}
    /\ mapping' = EmptyMap
    /\ file' = saveMappings(mapping', file, disk)
    /\ recent' = EmptyMap
    /\ last' = NoLast
    /\ env' = EnvAfterClear
    /\ op' = NoOp
    /\ UNCHANGED <<variant, disk, ticks, remote, origin, req, served, seq,
                   areq, alast, registry, conv, boot, peer, content>>

-----------------------------------------------------------------------------
(* PUT /update-alchemy of alchemyMiddleware.js *)

\* refreshAlchemyToken: the tenant's token (truthy) when the refresh
\* answered ok, null when it failed; its catch block swallows the error.
refreshAlchemyToken(ok) == ok

\* req.body.fields && req.body.fields[0].identifier === "EventStatus"
IsCancellation(body) ==
    /\ Truthy(Str(body, "fields"))
    /\ Str(body, "fields")[1].identifier = TxtEventStatus

\* req.body.fields as the handler sends it on.  For a cancellation
\* alchemyMiddleware.js (lines 102-104) leaves the sender's fields as they
\* are and part_012 (lines 77-82) puts the one status field in their place;
\* else both put the converted start and end.
FieldsA(v, body) ==
    IF IsCancellation(body)
    THEN IF v = "C" THEN <<Field(TxtEventStatus, TxtRemoved)>>
         ELSE Str(body, "fields")
    ELSE <<Field(TxtStartUse, convertToAlchemyFormat(DateTimeOf(body, "start"))),
           Field(TxtEndUse, convertToAlchemyFormat(DateTimeOf(body, "end")))>>

\* Line 108: !formattedStart || !formattedEnd
InvalidDatesA(body) ==
    /\ ~IsCancellation(body)
    /\ \/ ~Truthy(convertToAlchemyFormat(DateTimeOf(body, "start")))
       \/ ~Truthy(convertToAlchemyFormat(DateTimeOf(body, "end")))

AFreeSlot(r) == areq[r].pc = "idle" /\ \A q \in Reqs : q < r => areq[q].pc # "idle"

AAnswer(status, rq) == [status |-> status, rq |-> rq]

\* Lines 91-117: the body is read, the dates are converted and the registry's
\* token is asked for.
ReceiveA(r, p) ==
    /\ variant \in {"A", "C"}
    /\ AFreeSlot(r)
    /\ served < MaxRequests
    /\ served' = served + 1
    /\ LET body == AlchemyBodies[p]
           recordId == Str(body, "recordId")
       IN IF ~Truthy(recordId) \/ InvalidDatesA(body)
          THEN /\ alast' = AAnswer(400, [AIdle EXCEPT !.p = p, !.recordId = recordId])
               /\ UNCHANGED areq
          ELSE /\ areq' = [areq EXCEPT ![r] =
                             [AIdle EXCEPT !.pc = "token", !.p = p, !.recordId = recordId,
                                           !.tok = 1]]
               /\ alast' = ANoLast
    /\ op' = NoOp
    /\ UNCHANGED <<variant, disk, mapping, file, recent, ticks, remote, origin, req, last,
                   seq, env, registry, conv, boot, peer, content>>

\* Lines 117-123: the token arrives (or not).
TokenA(r, ok) ==
    /\ variant \in {"A", "C"}
    /\ areq[r].pc = "token"
    /\ LET rq == [areq[r] EXCEPT !.tout = TokenOutcome(ok)]
       IN IF ~refreshAlchemyToken(ok)
          THEN /\ alast' = AAnswer(500, rq)
               /\ areq' = [areq EXCEPT ![r] = AIdle]
          ELSE /\ areq' = [areq EXCEPT ![r] = [rq EXCEPT !.pc = "put", !.put = 1]]
               /\ alast' = ANoLast
    /\ op' = NoOp
    /\ UNCHANGED <<variant, disk, mapping, file, recent, ticks, remote, origin, req, last,
                   served, seq, env, registry, conv, boot, peer, content>>

\* Lines 122-142: the registry's answer to the PUT.
PutA(r, out) ==
    /\ variant \in {"A", "C"}
    /\ areq[r].pc = "put"
    /\ IF out = "ok"
       THEN /\ registry' = Put(registry, areq[r].recordId, FieldsA(variant, AlchemyBodies[areq[r].p]))
            /\ alast' = AAnswer(200, areq[r])
       ELSE /\ alast' = AAnswer(500, areq[r])
            /\ UNCHANGED registry
    /\ areq' = [areq EXCEPT ![r] = AIdle]
    /\ op' = NoOp
    /\ UNCHANGED <<variant, disk, mapping, file, recent, ticks, remote, origin, req, last,
                   served, seq, env, conv, boot, peer, content>>

\* POST /sync-alchemy-to-google of alchemyMiddleware.js (lines 148-182), from
\* the request to its end.  found: findEventInGoogleCalendar handed back an
\* event.  The branch for no event logs and returns without a response:
\* status 0 stands for the request that ended unanswered.
SyncAlchemyToGoogle(p, found) ==
    /\ variant = "A"
    /\ served < MaxRequests
    /\ served' = served + 1
    /\ LET recordId == Str(AlchemyBodies[p], "recordId")
           rq == [AIdle EXCEPT !.pc = "sync", !.p = p, !.recordId = recordId]
       IN alast' = IF ~Truthy(recordId) THEN AAnswer(400, rq)
                   ELSE IF found THEN AAnswer(200, rq)
                   ELSE AAnswer(0, rq)
    /\ op' = NoOp
    /\ UNCHANGED <<variant, disk, mapping, file, recent, ticks, remote, origin, req, last,
                   seq, env, areq, registry, conv, boot, peer, content>>

-----------------------------------------------------------------------------
(* The world around the handlers *)

\* Somebody deletes an event in the calendar: a PATCH of it answers 404.
RemoteDelete(e) ==
    /\ remote[e] = "live"
    /\ remote' = [remote EXCEPT ![e] = "gone"]
    /\ last' = NoLast
    /\ env' = "other"
    /\ op' = NoOp
    /\ UNCHANGED <<variant, disk, mapping, file, recent, ticks, origin, req, served, seq,
                   areq, alast, registry, conv, boot, peer, content>>

\* Somebody cancels an event: it stays readable and patchable, with status
\* "cancelled".
RemoteCancel(e) ==
    /\ remote[e] = "live"
    /\ remote' = [remote EXCEPT ![e] = "cancelled"]
    /\ last' = NoLast
    /\ env' = "other"
    /\ op' = NoOp
    /\ UNCHANGED <<variant, disk, mapping, file, recent, ticks, origin, req, served, seq,
                   areq, alast, registry, conv, boot, peer, content>>

\* Time passes.  Only server.js and part_000 read the clock, and only to
\* stamp a cache entry or to compare the clock with a stamp: while the cache
\* is empty the passing of time cannot be observed.
Tick ==
    /\ variant \in {"S", "E"}
    /\ ticks < MaxTicks
    /\ DOMAIN recent # {}
    /\ ticks' = ticks + 1
    /\ last' = NoLast
    /\ op' = NoOp
    /\ UNCHANGED <<variant, disk, mapping, file, recent, remote, origin, req, served, seq, env,
                   areq, alast, registry, conv, boot, peer, content>>

\* The ER codes an operator may name in DELETE /tracked-events/:erCode
OperatorCodes == {extractERCode(TxtEr15), extractERCode(TxtEr16)}

Next ==
    \/ \E r \in Reqs, p \in BodyIds : ReceiveG(r, p)
    \/ \E r \in Reqs, ok \in BOOLEAN : TokenG(r, ok)
    \/ \E r \in Reqs, out \in {"ok", "notfound", "error", "error404"} : UpdateG(r, out)
    \/ \E r \in Reqs, out \in {"ok", "error", "error404"} : CreateG(r, out)
    \/ ClearG
    \/ \E c \in OperatorCodes : DeleteOneG(c)
    \/ \E r \in Reqs, p \in BodyIds : ReceiveS(r, p)
    \/ \E r \in Reqs, ok \in BOOLEAN : TokenS(r, ok)
    \/ \E r \in Reqs, out \in {"ok", "notfound", "error", "error404"} : UpdateS(r, out)
    \/ \E r \in Reqs, out \in {"ok", "error", "error404"} : CreateS(r, out)
    \/ ClearS
    \/ \E e \in Events : RemoteDelete(e)
    \/ \E e \in Events : RemoteCancel(e)
    \/ Tick
    \/ \E r \in Reqs, p \in AlchemyBodyIds : ReceiveA(r, p)
    \/ \E r \in Reqs, ok \in BOOLEAN : TokenA(r, ok)
    \/ \E r \in Reqs, out \in {"ok", "error"} : PutA(r, out)
    \/ \E p \in AlchemyBodyIds, found \in BOOLEAN : SyncAlchemyToGoogle(p, found)

Spec == Init /\ [][Next]_vars

-----------------------------------------------------------------------------
(* A date from the registry to the calendar and back *)

Stamp(Y, M, D, h, mi, sec) ==
    [EmptyParse EXCEPT !.Y = Y, !.M = M, !.D = D, !.h = h, !.mi = mi, !.s = sec]

\* The timestamps converted: the README's, one with seconds, a leap day
\* just after midnight, noon, the last second of a year, and one with a
\* one-digit month and day.
Timestamps == {Stamp(2025, 2, 27, 19, 0, 0), Stamp(2025, 2, 27, 19, 0, 30),
               Stamp(2024, 2, 29, 0, 5, 7), Stamp(2025, 1, 1, 12, 0, 0),
               Stamp(2025, 12, 31, 23, 59, 59), Stamp(2026, 3, 5, 9, 41, 0)}

\* The handlers and the operator are idle while dates are converted.
hvars == <<variant, disk, mapping, file, recent, ticks, remote, origin, req,
           last, served, seq, env, areq, alast, registry, op, boot, peer, content>>

DateInit ==
    /\ variant = "S"
    /\ disk = TRUE
    /\ mapping = EmptyMap
    /\ file = EmptyMap
    /\ recent = EmptyMap
    /\ ticks = 0
    /\ remote = [e \in Events |-> "none"]
    /\ origin = [e \in Events |-> Null]
    /\ req = [r \in Reqs |-> Idle]
    /\ last = NoLast
    /\ served = 0
    /\ content = NoContent
    /\ seq = TRUE
    /\ env = "quiet"
    /\ areq = [r \in Reqs |-> AIdle]
    /\ alast = ANoLast
    /\ registry = EmptyMap
    /\ boot = Absent
    /\ peer = EmptyMap
    /\ op = NoOp
    /\ \E x \in Timestamps, k \in 1..Len(FormatsS), zone \in DOMAIN ZoneOffsets :
          conv = [NoConv EXCEPT !.pc = "format", !.x = x, !.fmt = k, !.zone = zone]

\* The registry writes the timestamp in its format.
FormatDate ==
    /\ conv.pc = "format"
    /\ conv' = [conv EXCEPT !.pc = "convert",
                            !.text = toFormat(conv.x, FormatsS[conv.fmt], 1)]
    /\ UNCHANGED hvars

\* POST /create-event converts it for the calendar (server.js line 403).
ConvertDate ==
    /\ conv.pc = "convert"
    /\ conv' = [conv EXCEPT !.pc = "back",
                            !.iso = ConvertedText(variant, conv.text, conv.zone)]
    /\ UNCHANGED hvars

\* PUT /update-alchemy converts the calendar's date for the registry
\* (alchemyMiddleware.js line 106).
ConvertBack ==
    /\ conv.pc = "back"
    /\ conv' = [conv EXCEPT !.pc = "done", !.back = convertToAlchemyFormat(conv.iso)]
    /\ UNCHANGED hvars

DateNext == FormatDate \/ ConvertDate \/ ConvertBack

DateSpec == DateInit /\ [][DateNext]_vars


-----------------------------------------------------------------------------
(* convertAlchemyDate applied to the date strings a request may carry *)

\* The date strings converted: one of each listed format, ISO texts with an
\* offset, without a zone and without a time, a word, and three texts of ISO
\* shape that name no date (a 13th month, a 30th of February with an offset,
\* a 30th of February without a zone).
RawDates == {
    \* "Feb 27 2025 07:00 PM"
    <<"F", "e", "b", " ", "2", "7", " ", "2", "0", "2", "5", " ", "0",
      "7", ":", "0", "0", " ", "P", "M">>,
    \* "2025-02-27T19:00:00Z"
    <<"2", "0", "2", "5", "-", "0", "2", "-", "2", "7", "T", "1", "9",
      ":", "0", "0", ":", "0", "0", "Z">>,
    \* "2025-02-27T19:00:00.000Z"
    <<"2", "0", "2", "5", "-", "0", "2", "-", "2", "7", "T", "1", "9",
      ":", "0", "0", ":", "0", "0", ".", "0", "0", "0", "Z">>,
    \* "2025-02-27 19:00:00"
    <<"2", "0", "2", "5", "-", "0", "2", "-", "2", "7", " ", "1", "9",
      ":", "0", "0", ":", "0", "0">>,
    \* "2/27/2025 19:00:00"
    <<"2", "/", "2", "7", "/", "2", "0", "2", "5", " ", "1", "9", ":",
      "0", "0", ":", "0", "0">>,
    \* "2/27/2025 7:00 PM"
    <<"2", "/", "2", "7", "/", "2", "0", "2", "5", " ", "7", ":", "0",
      "0", " ", "P", "M">>,
    \* "2025-02-27T19:00:00-05:00"
    <<"2", "0", "2", "5", "-", "0", "2", "-", "2", "7", "T", "1", "9",
      ":", "0", "0", ":", "0", "0", "-", "0", "5", ":", "0", "0">>,
    \* "2025-02-27T19:00"
    <<"2", "0", "2", "5", "-", "0", "2", "-", "2", "7", "T", "1", "9",
      ":", "0", "0">>,
    \* "2025-02-27"
    <<"2", "0", "2", "5", "-", "0", "2", "-", "2", "7">>,
    \* "soon"
    <<"s", "o", "o", "n">>,
    \* "2025-13-45T10:00:00Z"
    <<"2", "0", "2", "5", "-", "1", "3", "-", "4", "5", "T", "1", "0",
      ":", "0", "0", ":", "0", "0", "Z">>,
    \* "2025-02-30T10:00:00+05:30"
    <<"2", "0", "2", "5", "-", "0", "2", "-", "3", "0", "T", "1", "0",
      ":", "0", "0", ":", "0", "0", "+", "0", "5", ":", "3", "0">>,
    \* "2025-02-30T10:00"
    <<"2", "0", "2", "5", "-", "0", "2", "-", "3", "0", "T", "1", "0",
      ":", "0", "0">>}

NormInit ==
    /\ variant \in Variants
    /\ disk = TRUE
    /\ mapping = EmptyMap
    /\ file = EmptyMap
    /\ recent = EmptyMap
    /\ ticks = 0
    /\ remote = [e \in Events |-> "none"]
    /\ origin = [e \in Events |-> Null]
    /\ req = [r \in Reqs |-> Idle]
    /\ last = NoLast
    /\ served = 0
    /\ content = NoContent
    /\ seq = TRUE
    /\ env = "quiet"
    /\ areq = [r \in Reqs |-> AIdle]
    /\ alast = ANoLast
    /\ registry = EmptyMap
    /\ boot = Absent
    /\ peer = EmptyMap
    /\ op = NoOp
    /\ \E s \in RawDates, z \in DOMAIN ZoneOffsets :
           conv = [NoConv EXCEPT !.pc = "raw", !.text = s, !.zone = z]

\* convertAlchemyDate(dateString, timeZone) of the request's handler
NormalizeDate ==
    /\ conv.pc = "raw"
    /\ conv' = [conv EXCEPT !.pc = "normalized",
                            !.iso = ConvertedText(variant, conv.text, conv.zone)]
    /\ UNCHANGED hvars

NormNext == NormalizeDate

NormalizeSpec == NormInit /\ [][NormNext]_vars


-----------------------------------------------------------------------------
(* The RecordID marker of the description (server.js lines 283-312) *)

\* description = `${description} RecordID: ${recordId}` however the
\* description reads.
DescriptionMarkedAlways(description, recordId) ==
    IF Truthy(recordId)
    THEN description \o <<" ">> \o RecordIdLabel \o <<" ">> \o recordId
    ELSE description

\* if (recordId && !description.includes(`RecordID: ${recordId}`))
\*     description = `${description} RecordID: ${recordId}`
DescriptionMarked(description, recordId) ==
    IF Truthy(recordId)
       /\ ~Includes(description, RecordIdLabel \o <<" ">> \o recordId)
    THEN description \o <<" ">> \o RecordIdLabel \o <<" ">> \o recordId
    ELSE description

\* The descriptions sent: none, one without a marker, one with the marker,
\* one with the marker in another spelling, one whose marker names a longer
\* number, one that is a marker only, and one with two markers.
Descriptions == {
    Null, TxtWater, TxtWaterMarked,
    \* "recordid:50982 water"
    <<"r", "e", "c", "o", "r", "d", "i", "d", ":", "5", "0", "9", "8",
      "2", " ", "w", "a", "t", "e", "r">>,
    \* "Water RecordID: 509820"
    <<"W", "a", "t", "e", "r", " ", "R", "e", "c", "o", "r", "d", "I",
      "D", ":", " ", "5", "0", "9", "8", "2", "0">>,
    \* "RecordID: 60111"
    <<"R", "e", "c", "o", "r", "d", "I", "D", ":", " ", "6", "0", "1",
      "1", "1">>,
    \* "RecordID: 60111 then RecordID: 50982"
    <<"R", "e", "c", "o", "r", "d", "I", "D", ":", " ", "6", "0", "1",
      "1", "1", " ", "t", "h", "e", "n", " ", "R", "e", "c", "o", "r",
      "d", "I", "D", ":", " ", "5", "0", "9", "8", "2">>}

\* The recordId fields sent: none, the two records, and a number the
\* marker of another record starts with.
ExplicitIds == {
    Null, Txt50982, Txt60111,
    \* "5098"
    <<"5", "0", "9", "8">>}

\* The times the same sender sends the description it got back.
MaxPasses == 3

\* A request's description.  explicit: its recordId field.  first: the
\* description first sent.  sent: the description the last pass read.
\* description: the description as the last pass left it (to be sent
\* again).  recordId: the identifier the last pass resolved.
MarkInit ==
    /\ variant = "S"
    /\ disk = TRUE
    /\ mapping = EmptyMap
    /\ file = EmptyMap
    /\ recent = EmptyMap
    /\ ticks = 0
    /\ remote = [e \in Events |-> "none"]
    /\ origin = [e \in Events |-> Null]
    /\ req = [r \in Reqs |-> Idle]
    /\ last = NoLast
    /\ served = 0
    /\ content = NoContent
    /\ seq = TRUE
    /\ env = "quiet"
    /\ areq = [r \in Reqs |-> AIdle]
    /\ alast = ANoLast
    /\ registry = EmptyMap
    /\ boot = Absent
    /\ peer = EmptyMap
    /\ op = NoOp
    /\ \E d \in Descriptions, x \in ExplicitIds :
           conv = [pc |-> "describe", explicit |-> x, first |-> d, sent |-> Null,
                   description |-> d, recordId |-> Null, passes |-> 0]

\* POST /create-event up to line 312: the description under its aliases or
\* the default, the recordId from the fields or from the description's
\* marker, and the marker put into the description.
MarkDescription ==
    /\ conv.pc = "describe"
    /\ conv.passes < MaxPasses
    /\ LET description == OrElse(conv.description, DefaultDescription)
           recordId == OrElse(conv.explicit,
                              extractRecordIdFromDescription(description))
       IN conv' = [conv EXCEPT !.sent = description,
                               !.recordId = recordId,
                               !.description = DescriptionMarked(description, recordId),
                               !.passes = @ + 1]
    /\ UNCHANGED hvars

MarkNext == MarkDescription

MarkerSpec == MarkInit /\ [][MarkNext]_vars


-----------------------------------------------------------------------------
(* The start of the process: the tracking file is loaded once *)

\* A load that takes the file's bytes for mappings without the checks.
loadTrackingUnchecked(b) == b.content

\* if (fs.existsSync(FILE)) mappings = JSON.parse(fs.readFileSync(FILE)),
\* inside a try whose catch logs; the mappings stay {} otherwise.
loadTracking(b) ==
    IF b.exists /\ b.readable /\ b.parses THEN b.content ELSE EmptyMap

\* The mappings a process of an earlier run wrote: the record of body 2,
\* mapped to the first event.
TrackedBefore(v) == [x \in {IdOf[v][2]} |-> 1]

\* The files a process may find: none, one it may not read, one cut short
\* in the middle of a write, and one written whole.
Boots(v) ==
    {Absent,
     [exists |-> TRUE, readable |-> FALSE, parses |-> FALSE, content |-> TrackedBefore(v)],
     [exists |-> TRUE, readable |-> TRUE, parses |-> FALSE, content |-> TrackedBefore(v)],
     [exists |-> TRUE, readable |-> TRUE, parses |-> TRUE, content |-> TrackedBefore(v)]}

\* The state after the module is loaded.  The calendar holds the event the
\* earlier run created when a file is left of it.
StartInit ==
    /\ variant \in Variants
    /\ boot \in Boots(variant)
    /\ disk \in BOOLEAN
    /\ mapping = loadTracking(boot)
    /\ file = boot.content
    /\ recent = EmptyMap
    /\ ticks = 0
    /\ remote = [e \in Events |->
                    IF boot.exists /\ e = 1 THEN "live" ELSE "none"]
    /\ origin = [e \in Events |->
                    IF boot.exists /\ e = 1 THEN IdOf[variant][2] ELSE Null]
    /\ req = [r \in Reqs |-> Idle]
    /\ last = NoLast
    /\ served = 0
    /\ content = NoContent
    /\ seq = TRUE
    /\ env = "quiet"
    /\ areq = [r \in Reqs |-> AIdle]
    /\ alast = ANoLast
    /\ registry = EmptyMap
    /\ peer = EmptyMap
    /\ op = NoOp
    /\ conv = NoConv

\* The requests the process serves after its start.
StartNext ==
    \/ \E r \in Reqs, p \in BodyIds : ReceiveG(r, p)
    \/ \E r \in Reqs, ok \in BOOLEAN : TokenG(r, ok)
    \/ \E r \in Reqs, out \in {"ok", "notfound", "error", "error404"} : UpdateG(r, out)
    \/ \E r \in Reqs, out \in {"ok", "error", "error404"} : CreateG(r, out)
    \/ \E r \in Reqs, p \in BodyIds : ReceiveS(r, p)
    \/ \E r \in Reqs, ok \in BOOLEAN : TokenS(r, ok)
    \/ \E r \in Reqs, out \in {"ok", "notfound", "error", "error404"} : UpdateS(r, out)
    \/ \E r \in Reqs, out \in {"ok", "error", "error404"} : CreateS(r, out)

StartSpec == StartInit /\ [][StartNext]_vars


-----------------------------------------------------------------------------
(* Two processes on one tracking file *)

SharedInit ==
    /\ variant \in Variants
    /\ boot = Absent
    /\ disk \in BOOLEAN
    /\ mapping = EmptyMap
    /\ file = EmptyMap
    /\ recent = EmptyMap
    /\ ticks = 0
    /\ remote = [e \in Events |-> "none"]
    /\ origin = [e \in Events |-> Null]
    /\ req = [r \in Reqs |-> Idle]
    /\ last = NoLast
    /\ served = 0
    /\ content = NoContent
    /\ seq = TRUE
    /\ env = "quiet"
    /\ areq = [r \in Reqs |-> AIdle]
    /\ alast = ANoLast
    /\ registry = EmptyMap
    /\ peer = EmptyMap
    /\ op = NoOp
    /\ conv = NoConv

\* POST /create-event served by the second process, from the request to the
\* answer, for a record its memory does not map: it posts an event, maps the
\* record in its own memory and rewrites the file from that memory.
PeerCreate(p) ==
    /\ served < MaxRequests
    /\ NextEvent # 0
    /\ Truthy(IdOf[variant][p])
    /\ ~MissingOf[variant][p] /\ ~BadOf[variant][p]
    /\ Lookup(peer, IdOf[variant][p]) = 0
    /\ served' = served + 1
    /\ remote' = [remote EXCEPT ![NextEvent] = "live"]
    /\ origin' = [origin EXCEPT ![NextEvent] = IdOf[variant][p]]
    /\ peer' = Put(peer, IdOf[variant][p], NextEvent)
    /\ file' = saveMappings(peer', file, disk)
    /\ seq' = FALSE
    /\ env' = "other"
    /\ last' = NoLast
    /\ op' = NoOp
    /\ UNCHANGED <<variant, disk, mapping, recent, ticks, req,
                   areq, alast, registry, conv, boot, content>>

SharedNext ==
    \/ \E r \in Reqs, p \in BodyIds : ReceiveG(r, p)
    \/ \E r \in Reqs, ok \in BOOLEAN : TokenG(r, ok)
    \/ \E r \in Reqs, out \in {"ok", "notfound", "error", "error404"} : UpdateG(r, out)
    \/ \E r \in Reqs, out \in {"ok", "error", "error404"} : CreateG(r, out)
    \/ \E r \in Reqs, p \in BodyIds : ReceiveS(r, p)
    \/ \E r \in Reqs, ok \in BOOLEAN : TokenS(r, ok)
    \/ \E r \in Reqs, out \in {"ok", "notfound", "error", "error404"} : UpdateS(r, out)
    \/ \E r \in Reqs, out \in {"ok", "error", "error404"} : CreateS(r, out)
    \/ \E p \in BodyIds : PeerCreate(p)

SharedSpec == SharedInit /\ [][SharedNext]_vars


-----------------------------------------------------------------------------
(* POST /create-event of part_005: the event is looked for in the calendar *)

\* The bodies sent to part_005.
FindBodies == <<
    \* 1: a record
    <<Fld("recordId", Txt50982), Fld("summary", TxtEr15), Fld("description", TxtWater),
      Fld("StartUse", TxtSeven), Fld("EndUse", TxtEight)>>,
    \* 2: another record, booked under the same title for the same time
    <<Fld("recordId", Txt60111), Fld("summary", TxtEr15), Fld("description", TxtWater),
      Fld("StartUse", TxtSeven), Fld("EndUse", TxtEight)>>,
    \* 3: the second record under its own title, an hour later
    <<Fld("recordId", Txt60111), Fld("summary", TxtEr16),
      Fld("StartUse", TxtEight), Fld("EndUse", TxtEight)>>,
    \* 4: a record whose number the first one's starts with, under the same
    \* title, an hour later
    <<Fld("recordId", <<"5", "0", "9", "8">>), Fld("summary", TxtEr15),
      Fld("StartUse", TxtEight), Fld("EndUse", TxtEight)>>
>>

FindBodyIds == 1..Len(FindBodies)

\* What the handler reads from each body (lines 590-612) and sends to the
\* calendar (lines 676-690): recordId, summary, the description with the
\* marker, and the instant of the converted start, in seconds.
RecordIdF == [p \in FindBodyIds |-> ExplicitId(FindBodies[p])]

SummaryF == [p \in FindBodyIds |-> SummaryS(FindBodies[p])]

DescriptionF ==
    [p \in FindBodyIds |->
        DescriptionMarked(DescriptionS(FindBodies[p]), ExplicitId(FindBodies[p]))]

StartF == [p \in FindBodyIds |-> Instant(ParseDate("S", StartTimeS(FindBodies[p])))]

\* The events a list request of the calendar answers with.
Listed == {e \in Events : remote[e] = "live" /\ content[e].p # 0}

\* data.items[0] / data.items.find(...): the first of the events, 0 for none.
FirstOf(es) == IF es = {} THEN 0 ELSE CHOOSE e \in es : \A d \in es : e <= d

\* description.includes(`RecordID: ${recordId}`) || summary.includes(...)
HoldsMarker(e, recordId) ==
    \/ Includes(DescriptionF[content[e].p], RecordIdLabel \o <<" ">> \o recordId)
    \/ Includes(SummaryF[content[e].p], RecordIdLabel \o <<" ">> \o recordId)

\* Strategy 2 (lines 447-470): privateExtendedProperty alchemyRecordId=<id>
ByProperty(recordId) == FirstOf({e \in Listed : content[e].rid = recordId})

\* Strategy 3 (lines 473-530): the events the title finds, with the marker
ByTitle(recordId, summary) ==
    FirstOf({e \in Listed : /\ SummaryF[content[e].p] = summary
                            /\ HoldsMarker(e, recordId)})

\* Strategy 4 (lines 533-574): the events that start within five minutes of
\* the start, with the same summary or with the marker in the description
Within(a, b, span) == a - b <= span /\ b - a <= span

ByTimeWindow(recordId, summary, start) ==
    FirstOf({e \in Listed :
               /\ Within(StartF[content[e].p], start, 5 * 60)
               /\ \/ SummaryF[content[e].p] = summary
                  \/ Includes(DescriptionF[content[e].p],
                              RecordIdLabel \o <<" ">> \o recordId)})

\* findExistingEvent (lines 417-582), every request to the calendar being
\* answered: the cached event when a GET still finds it, else the first
\* strategy that finds an event, which it caches.  ev: the event, 0 for
\* none.  cache: eventCache afterwards.  by: the strategy that found it.
FirstStrategy(cache, recordId, cached, byProperty, byTitle, byTimeWindow) ==
    LET swept == IF cached # 0 THEN Remove(cache, recordId) ELSE cache
        Found(e, by) == [ev |-> e, cache |-> Put(swept, recordId, e), by |-> by]
    IN IF cached # 0 /\ remote[cached] = "live"
       THEN [ev |-> cached, cache |-> cache, by |-> "cache"]
       ELSE IF byProperty # 0 THEN Found(byProperty, "property")
       ELSE IF byTitle # 0 THEN Found(byTitle, "title")
       ELSE IF byTimeWindow # 0 THEN Found(byTimeWindow, "window")
       ELSE [ev |-> 0, cache |-> swept, by |-> "none"]

findExistingEvent(cache, recordId, summary, start) ==
    FirstStrategy(cache, recordId, Lookup(cache, recordId),
                  ByProperty(recordId), ByTitle(recordId, summary),
                  ByTimeWindow(recordId, summary, start))

\* POST /create-event of part_005 (lines 585-781), from the request to the
\* answer.  mapping stands for eventCache.  ok: the token refresh succeeded.
\* out: the calendar's answer to the PATCH or POST of the event.
CreateEventF(p, ok, out) ==
    /\ variant = "F"
    /\ served < MaxRequests
    /\ served' = served + 1
    /\ \E found \in {findExistingEvent(mapping, RecordIdF[p], SummaryF[p], StartF[p])} :
       LET recordId == RecordIdF[p]
           rq == [Idle EXCEPT !.p = p, !.id = recordId, !.tgt = found.ev, !.tok = 1]
           \* lines 506-521: the title strategy patches the extended property
           marked == IF found.by = "title"
                     THEN [content EXCEPT ![found.ev].rid = recordId]
                     ELSE content
           e == IF found.ev # 0 THEN found.ev ELSE NextEvent
       IN IF ~getGoogleAccessToken(ok)
          THEN /\ last' = Answer(500, "none", 0, [rq EXCEPT !.tgt = 0])
               /\ UNCHANGED <<mapping, content, remote, origin>>
          ELSE IF out = "ok" /\ e # 0
          THEN /\ mapping' = Put(found.cache, recordId, e)
               /\ content' = [marked EXCEPT ![e] = [p |-> p, rid |-> recordId]]
               /\ remote' = [remote EXCEPT ![e] = "live"]
               /\ origin' = IF found.ev = 0 THEN [origin EXCEPT ![e] = recordId]
                             ELSE origin
               /\ last' = Answer(200, IF found.ev # 0 THEN "updated" ELSE "created", e,
                                 [rq EXCEPT !.wrote = "put"])
          ELSE /\ mapping' = found.cache
               /\ content' = marked
               /\ last' = Answer(500, "none", 0, rq)
               /\ UNCHANGED <<remote, origin>>
    /\ op' = NoOp
    /\ UNCHANGED <<variant, disk, file, recent, ticks, req, seq, env,
                   areq, alast, registry, conv, boot, peer>>

FindInit ==
    /\ variant = "F"
    /\ boot = Absent
    /\ disk = TRUE
    /\ mapping = EmptyMap
    /\ file = EmptyMap
    /\ recent = EmptyMap
    /\ ticks = 0
    /\ remote = [e \in Events |-> "none"]
    /\ origin = [e \in Events |-> Null]
    /\ req = [r \in Reqs |-> Idle]
    /\ last = NoLast
    /\ served = 0
    /\ content = NoContent
    /\ seq = TRUE
    /\ env = "quiet"
    /\ areq = [r \in Reqs |-> AIdle]
    /\ alast = ANoLast
    /\ registry = EmptyMap
    /\ peer = EmptyMap
    /\ op = NoOp
    /\ conv = NoConv

FindNext ==
    \/ \E p \in FindBodyIds, ok \in BOOLEAN, out \in {"ok", "error"} :
           CreateEventF(p, ok, out)
    \/ \E e \in Events : RemoteDelete(e)

FindSpec == FindInit /\ [][FindNext]_vars


-----------------------------------------------------------------------------
(* Properties *)

\* The step just taken answered a request.
Answered == last.status # 0

\* The step just taken answered a request with 200.
Succeeded == last.status = 200

Er15 == <<"E", "R", "1", "5">>

\* C1: while requests run one at a time, every remote call succeeds and
\* nobody interferes, no identifier ever has two counterparts; a request for
\* an identifier is answered with the one counterpart of that identifier,
\* which the mapping holds, and its action is "created" when it posted the
\* counterpart (the first call) and "updated" when it patched it (every
\* later call).
C1_Idempotent ==
    (seq /\ env = "quiet") =>
        /\ \A e1, e2 \in Events :
              (Truthy(origin[e1]) /\ origin[e1] = origin[e2]) => e1 = e2
        /\ (Succeeded /\ Truthy(last.rq.id)) =>
              /\ Counterparts(last.rq.id) = {last.ev}
              /\ Lookup(mapping, last.rq.id) = last.ev
              /\ last.action = (IF last.rq.upd = 0 THEN "created" ELSE "updated")
              /\ last.rq.upd + last.rq.cre = 1

\* A later call of a sequential, undisturbed run was answered "updated" with
\* the only counterpart of its identifier.
C1_Witness ==
    /\ seq /\ env = "quiet"
    /\ Succeeded /\ last.action = "updated"
    /\ Counterparts(last.rq.id) = {last.ev}

\* C2 as stated: a request whose PATCH was answered 404 and which succeeds
\* reports "recreated" and leaves the new counterpart mapped under its
\* identifier.
C2_StaleRecovery ==
    (Succeeded /\ last.rq.uout = "notfound") =>
        /\ last.action = "recreated"
        /\ last.ev # last.rq.tgt
        /\ Lookup(mapping, last.rq.id) = last.ev

\* C3 as stated: a request that patched a counterpart whose status is
\* "cancelled" ends as it does for a missing counterpart, with a new
\* counterpart mapped under its identifier and not with "updated".
C3_CancelledAsMissing ==
    (Succeeded /\ last.rq.upd = 1 /\ remote[last.rq.tgt] = "cancelled") =>
        /\ last.action # "updated"
        /\ last.ev # last.rq.tgt
        /\ Lookup(mapping, last.rq.id) = last.ev

\* C4 as stated: a request whose body carries an explicit identifier field
\* and a summary that starts with another code runs under the explicit
\* field's value.
C4_ExplicitWins ==
    \A r \in Reqs :
        LET body == Bodies[req[r].p]
            explicit == OrElse(Str(body, "recordId"),
                               OrElse(Str(body, "id"), Str(body, "record_id")))
        IN (req[r].pc # "idle" /\ Truthy(explicit)
              /\ Truthy(PrefixCodeAt(Str(body, "summary"), 1))
              /\ PrefixCodeAt(Str(body, "summary"), 1) # explicit)
           => req[r].id = explicit

\* C5 as stated: a request that fails leaves the mapping of its identifier
\* as it was when the request began.
C5_AllOrNothing ==
    (Answered /\ last.status >= 400) => last.rq.wrote = "none"

\* C5, amended: every mapping names an event the calendar confirmed for that
\* identifier; a request that fails has put no mapping, and has removed the
\* mapping of its identifier only after its PATCH was answered 404 or with an
\* error whose text holds "404".
C5_PutOnlyAfterSuccess ==
    /\ \A id \in DOMAIN mapping :
          /\ mapping[id] \in Events
          /\ remote[mapping[id]] # "none"
          /\ origin[mapping[id]] = id
    /\ (Answered /\ last.status >= 400) =>
          /\ last.rq.wrote # "put"
          /\ last.rq.wrote = "removed" => last.rq.uout \in {"notfound", "error404"}

\* A request failed after its PATCH was answered 404: the mapping it found
\* is gone, no new one was put.
C5_Witness ==
    /\ Answered /\ last.status >= 400
    /\ last.rq.uout = "notfound"
    /\ last.rq.wrote = "removed"
    /\ Lookup(mapping, last.rq.id) = 0

\* C6 as stated: a request whose PATCH failed other than with a 404 goes no
\* further: it is answered 5xx, posts nothing and leaves the mapping alone.
C6_UpdateErrorIsFinal ==
    /\ \A r \in Reqs : req[r].uout \in {"error", "error404"} => req[r].pc = "idle"
    /\ (Answered /\ last.rq.uout \in {"error", "error404"}) =>
          /\ last.status >= 500
          /\ last.rq.cre = 0
          /\ last.rq.wrote = "none"

\* C7: with every remote call succeeding and nobody interfering, the
\* counterpart a request has just created is the one its identifier maps to,
\* whatever was mapped before; every other counterpart of the identifier
\* still exists in the calendar and no mapping refers to it.
C7_LastPutWins ==
    (env = "quiet" /\ Succeeded /\ last.action = "created" /\ Truthy(last.rq.id)) =>
        /\ Lookup(mapping, last.rq.id) = last.ev
        /\ \A e \in Counterparts(last.rq.id) \ {last.ev} :
              /\ remote[e] = "live"
              /\ \A x \in DOMAIN mapping : mapping[x] # e

\* Two requests raced: nothing failed and nobody interfered, yet the
\* identifier of the request just answered "created" has a second, live
\* counterpart that no mapping refers to.
C7_Witness ==
    /\ env = "quiet" /\ ~seq
    /\ Succeeded /\ last.action = "created"
    /\ \E e \in Counterparts(last.rq.id) :
          /\ e # last.ev
          /\ remote[e] = "live"
          /\ \A x \in DOMAIN mapping : mapping[x] # e

\* C8: a request that arrives right after the operator cleared the
\* mappings, runs alone, has dates that parse and whose remote calls succeed
\* is answered 200 "created" without a PATCH, and its identifier maps to the
\* new counterpart.
C8_CreatedAfterClear ==
    (Answered /\ last.rq.wiped /\ seq /\ env # "other"
       /\ ~BadOf[variant][last.rq.p] /\ Truthy(last.rq.id)) =>
        /\ Succeeded
        /\ last.action = "created"
        /\ last.rq.upd = 0
        /\ origin[last.ev] = last.rq.id
        /\ Lookup(mapping, last.rq.id) = last.ev

\* A record that had a counterpart was submitted again after a clear and
\* was answered "created" with a new counterpart.
C8_Witness ==
    /\ last.rq.wiped /\ seq /\ env = "reset"
    /\ Succeeded /\ last.action = "created"
    /\ \E e \in Counterparts(last.rq.id) : e # last.ev
    /\ Lookup(mapping, last.rq.id) = last.ev

\* C9 as stated: the example body "ER15 - HPLC" runs under the identifier
\* ER15, and its counterpart is mapped under ER15.
C9_ExamplePrefix ==
    (Succeeded /\ Str(Bodies[last.rq.p], "summary") = TxtEr15
       /\ ~Truthy(Str(Bodies[last.rq.p], "recordId"))) =>
        /\ last.rq.id = Er15
        /\ Lookup(mapping, Er15) = last.ev

\* start or end is absent under every alias a handler reads.
NoStartOrEnd(body) ==
    \/ \A i \in 1..Len(body) :
          body[i].k \notin {"start", "StartUse", "start_time", "startTime"}
    \/ \A i \in 1..Len(body) :
          body[i].k \notin {"end", "EndUse", "end_time", "endTime"}

\* C10: a request whose body has no start or no end is answered 400 having
\* asked for no token, patched nothing, posted nothing and written no mapping.
C10_FailFast ==
    (Answered /\ NoStartOrEnd(Bodies[last.rq.p])) =>
        /\ last.status = 400
        /\ last.rq.tok = 0 /\ last.rq.upd = 0 /\ last.rq.cre = 0
        /\ last.rq.wrote = "none"

\* A request without an end was answered 400 while mappings exist.
C10_Witness ==
    /\ Answered /\ NoStartOrEnd(Bodies[last.rq.p])
    /\ last.status = 400
    /\ mapping # EmptyMap

\* C11: a request whose token refresh failed, for the calendar or for the
\* registry, is over: it is answered 500 having asked for the token once,
\* issued no PATCH, POST or PUT against the remote and written no mapping.
C11_TokenFailure ==
    /\ \A r \in Reqs : req[r].tout # "failed" /\ areq[r].tout # "failed"
    /\ (Answered /\ last.rq.tout = "failed") =>
          /\ last.status = 500
          /\ last.rq.tok = 1 /\ last.rq.upd = 0 /\ last.rq.cre = 0
          /\ last.rq.wrote = "none"
    /\ (alast.status # 0 /\ alast.rq.tout = "failed") =>
          /\ alast.status = 500
          /\ alast.rq.tok = 1 /\ alast.rq.put = 0

\* A request for a record that has a counterpart was answered 500 after its
\* token refresh failed, and the record still maps to that counterpart.
C11_Witness ==
    /\ Answered /\ last.rq.tout = "failed" /\ last.status = 500
    /\ Lookup(mapping, last.rq.id) # 0
    /\ remote[Lookup(mapping, last.rq.id)] = "live"

\* No listed format reads s, it is not ISO 8601, and it does not look ISO
\* enough to be handed back as it is.
Unreadable(v, s) ==
    /\ Truthy(s)
    /\ \A k \in 1..Len(Formats(v)) : ~fromFormat(s, Formats(v)[k]).ok
    /\ ~fromISO(s).ok
    /\ ~LooksIso(s)

HasUnreadableDate(v, body) ==
    Unreadable(v, StartTime(v, body)) \/ Unreadable(v, EndTime(v, body))

UnreadableOf == [v \in Variants |-> [p \in BodyIds |-> HasUnreadableDate(v, Bodies[p])]]

\* C12 as stated: a request whose start or end no format reads is answered
\* with a 4xx, having patched nothing, posted nothing and written no mapping.
C12_DateFormatError ==
    (Answered /\ UnreadableOf[variant][last.rq.p]) =>
        /\ last.status \in 400..499
        /\ last.rq.upd = 0 /\ last.rq.cre = 0
        /\ last.rq.wrote = "none"

\* C12, amended: a request whose start or end no format reads never gets
\* past the date conversion: it patches nothing, posts nothing and writes no
\* mapping; it is answered 400, unless its token refresh failed, which is
\* found out first and answered 500.
C12_DateFormatAfterToken ==
    /\ \A r \in Reqs :
          req[r].pc \notin {"idle", "token"} => ~UnreadableOf[variant][req[r].p]
    /\ (Answered /\ UnreadableOf[variant][last.rq.p]) =>
          /\ last.status = (IF last.rq.tout = "failed" THEN 500 ELSE 400)
          /\ last.rq.upd = 0 /\ last.rq.cre = 0
          /\ last.rq.wrote = "none"

\* A request with a start no format reads got its token and was answered
\* 400 while its record has a counterpart, which stays mapped.
C12_Witness ==
    /\ Answered /\ UnreadableOf[variant][last.rq.p]
    /\ last.rq.tout = "ok" /\ last.status = 400
    /\ Lookup(mapping, last.rq.id) # 0

\* C13: while writes of the tracking file fail, a request that puts a
\* mapping is still answered 200 with its action, the file does not hold the
\* mapping and the memory does: a lookup of the identifier gives the
\* counterpart just put, and in a sequential, undisturbed run every later
\* request for the identifier finds it there and patches that counterpart
\* instead of posting another.
C13_WriteFailureIsLogged ==
    ~disk =>
        /\ (Answered /\ last.rq.wrote = "put") =>
              /\ Succeeded
              /\ last.action \in {"created", "updated", "recreated"}
              /\ Lookup(mapping, last.rq.id) = last.ev
              /\ Lookup(file, last.rq.id) = 0
        /\ (seq /\ env = "quiet" /\ Succeeded /\ Truthy(last.rq.id)) =>
              /\ Counterparts(last.rq.id) = {last.ev}
              /\ Lookup(mapping, last.rq.id) = last.ev
              /\ Lookup(file, last.rq.id) = 0

\* With the disk refusing every write, a second request for a record was
\* answered "updated" with the counterpart the first one had put in memory.
C13_Witness ==
    /\ ~disk /\ file = EmptyMap
    /\ seq /\ env = "quiet"
    /\ Succeeded /\ last.action = "updated"
    /\ Lookup(mapping, last.rq.id) = last.ev

\* C14: a DELETE /tracked-events/:erCode for a code that is mapped is
\* answered 200 and removes the mapping of that code from memory, leaving
\* the mapping of every other code as it was; for a code that is not mapped
\* it is answered 404 and leaves memory and file as they were.
C14_DeleteOne ==
    op.status # 0 =>
        IF op.erCode \in DOMAIN op.was
        THEN /\ op.status = 200
             /\ DOMAIN mapping = DOMAIN op.was \ {op.erCode}
             /\ \A x \in DOMAIN mapping : mapping[x] = op.was[x]
             /\ disk => file = mapping
        ELSE /\ op.status = 404
             /\ mapping = op.was
             /\ file = op.fwas

\* The operator removed the mapping of one of two mapped codes: the other
\* code is still mapped.
C14_Witness ==
    /\ op.status = 200
    /\ op.erCode \in DOMAIN op.was
    /\ mapping # EmptyMap

\* The format writes the seconds of a timestamp.
HasSeconds(fmt) == \E j \in 1..Len(fmt) : fmt[j] = "ss"

\* C15 as stated: whatever the format and the zone, the converted date is
\* the instant of the timestamp, to the second.
C15_RoundTrip ==
    conv.pc \in {"back", "done"} =>
        /\ Truthy(conv.iso)
        /\ fromISO(conv.iso).ok
        /\ Instant(fromISO(conv.iso)) = Instant(conv.x)

\* C15, amended: whatever the format and the zone, the converted date is
\* spelled with the zone's offset and is the instant of the timestamp as far
\* as the format writes it: to the second for the formats with seconds, to
\* the minute (seconds dropped) for the two without; converted back for the
\* registry it is that instant in yyyy-MM-dd'T'HH:mm:ss'Z'.
C15_RoundTripAsWritten ==
    LET fmt == FormatsS[conv.fmt]
        kept == IF HasSeconds(fmt) THEN Instant(conv.x) ELSE Instant(conv.x) - conv.x.s
    IN /\ conv.pc \in {"back", "done"} =>
             /\ Truthy(conv.iso)
             /\ fromISO(conv.iso).ok
             /\ Instant(fromISO(conv.iso)) = kept
             /\ OffsetOf(fromISO(conv.iso)) = ZoneOffsets[conv.zone]
       /\ conv.pc = "done" =>
             /\ Truthy(conv.back)
             /\ fromFormat(conv.back, FmtIsoZ).ok
             /\ Instant(fromFormat(conv.back, FmtIsoZ)) = kept

\* A timestamp of the afternoon with seconds went through a 24-hour format
\* with seconds into the zone that is five and a half hours ahead, where it
\* falls on the next day, and came back as the same instant.
C15_Witness ==
    /\ conv.pc = "done"
    /\ conv.zone = "Asia/Kolkata"
    /\ conv.x.s # 0 /\ conv.x.h >= 12
    /\ HasSeconds(FormatsS[conv.fmt])
    /\ fromISO(conv.iso).D # conv.x.D
    /\ Instant(fromFormat(conv.back, FmtIsoZ)) = Instant(conv.x)

\* C16 as stated: a request runs under the identifier of the first of these
\* that finds one: the explicit field, a prefix code at the start of the
\* summary, a prefix code anywhere in the description, the marker in the
\* description, a number of 4 to 8 digits anywhere in the body.  (part_000
\* writes RID_ before an identifier that is a record id.)
C16_StrategyOrder ==
    \A r \in Reqs :
        LET body == Bodies[req[r].p]
            summary == Str(body, "summary")
            description == Str(body, "description")
            first == OrElse(ExplicitId(body),
                     OrElse(PrefixCodeAt(summary, 1),
                     OrElse(PrefixCodeAnywhere(description),
                     OrElse(extractRecordIdFromDescription(description),
                            FirstPotentialId(Stringify(body, 1), 1)))))
        IN (req[r].pc # "idle" /\ Truthy(first)) =>
              req[r].id \in {first, RidPrefix \o first}

\* C17 as stated: a request that finds its record neither in the cache of
\* recent events nor in the tracking goes on to ask the calendar, first for
\* the event whose metadata (extendedProperties.private.alchemyRecordId,
\* which server.js and part_000 write into every event they post) names the
\* record; so, with requests running one at a time, none is about to post a
\* new event while a live event carries its record's identifier.
C17_RemoteFallback ==
    \A r \in Reqs :
        (variant \in {"S", "E"} /\ seq /\ req[r].pc = "create" /\ req[r].upd = 0) =>
            \A e \in Events : ~(remote[e] = "live" /\ origin[e] = req[r].id)

\* C18: a request whose body names no record under any strategy of its
\* handler never patches an event; when it succeeds its action is "created"
\* after one POST, and the step that answers it leaves the mapping of every
\* identifier other than its own placeholder as it was.  (Placeholders taken
\* as distinct from one another and from every identifier a body can name.)
C18_PureCreate ==
    /\ \A r \in Reqs :
          (req[r].pc # "idle" /\ ~Truthy(IdOf[variant][req[r].p])) =>
              /\ req[r].pc \in {"token", "create"}
              /\ req[r].upd = 0
    /\ (Answered /\ ~Truthy(IdOf[variant][last.rq.p])) =>
          /\ last.rq.upd = 0
          /\ last.rq.cre <= 1
          /\ Succeeded => (last.action = "created" /\ last.rq.cre = 1)
          /\ \A id \in (DOMAIN mapping \cup DOMAIN last.was) \ {last.rq.id} :
                Lookup(mapping, id) = Lookup(last.was, id)
          /\ variant = "G" => mapping = last.was

\* A request that names no record was answered "created" while another
\* record is mapped.
C18_Witness ==
    /\ Answered /\ ~Truthy(IdOf[variant][last.rq.p])
    /\ Succeeded /\ last.action = "created"
    /\ last.rq.upd = 0
    /\ DOMAIN last.was \ {last.rq.id} # {}
    /\ remote[last.ev] = "live"

\* The step maps id to the new counterpart of a request for id that it
\* answers "created" or "recreated".
MappedByCreate(id) ==
    /\ last'.status = 200
    /\ last'.action \in {"created", "recreated"}
    /\ last'.rq.id = id
    /\ last'.ev = Lookup(mapping', id)

\* The step is the operator's deletion of the mapping of id, or the answer
\* "not found" (a 404, or an error whose text holds "404") to the PATCH of a
\* request for id.
UnmappedByDeletion(id) ==
    \/ ClearG
    \/ ClearS
    \/ DeleteOneG(id)
    \/ \E r \in Reqs :
          /\ req[r].id = id
          /\ UpdateG(r, "notfound") \/ UpdateG(r, "error404")

C20_AtMostOnce ==
    /\ \A r \in Reqs : req[r].upd <= 1 /\ req[r].cre <= 1
    /\ Answered => (last.rq.upd <= 1 /\ last.rq.cre <= 1)

\* C21 as stated: while writes of the tracking file succeed, the file holds
\* the mappings of the memory whenever no request is in flight.
C21_FileFollowsMemory ==
    (disk /\ \A r \in Reqs : req[r].pc = "idle") => file = mapping

\* C22: when a request of server.js or part_000 looks for the counterpart of
\* its identifier, it takes the event of the cache entry when the cache has
\* an entry for the identifier that is not older than the expiry, else the
\* event the tracking maps the identifier to, and else posts a new event.
C22_CacheThenMapping ==
    [][\A r \in Reqs :
           (variant \in {"S", "E"} /\ req[r].pc = "token"
              /\ req'[r].pc \in {"update", "create"}) =>
               LET id == req[r].id
                   fresh == /\ id \in DOMAIN recent
                            /\ Now - recent[id].ts <= RECENT_EVENT_EXPIRY
                   found == IF fresh THEN recent[id].ev
                            ELSE IF id \in DOMAIN mapping THEN mapping[id] ELSE 0
               IN IF found # 0
                  THEN req'[r].pc = "update" /\ req'[r].tgt = found
                  ELSE req'[r].pc = "create"
      ]_vars

\* A request is about to patch the event the tracking names, the cache
\* entry of its identifier being older than the expiry and still in place.
C22_Witness ==
    \E r \in Reqs :
        /\ req[r].pc = "update"
        /\ req[r].id \in DOMAIN recent
        /\ Now - recent[req[r].id].ts > RECENT_EVENT_EXPIRY
        /\ req[r].tgt = Lookup(mapping, req[r].id)

\* The cache of recent events after the entries outside keep are lost.
RecentOnly(keep) == [x \in keep |-> recent[x]]

\* C23: in server.js and part_000, whichever entries the cache of recent
\* events loses, the lookup of every identifier finds what it finds with the
\* whole cache: the cache never names an event the tracking does not name, so
\* the requests that follow patch or post the same events and leave the same
\* tracking.
C23_CacheLossIsHarmless ==
    variant \in {"S", "E"} =>
        \A keep \in SUBSET DOMAIN recent :
            \A id \in DOMAIN recent \cup DOMAIN mapping :
                ExistingS(RecentOnly(keep), mapping, id, Now)
                    = ExistingS(recent, mapping, id, Now)

\* A request is about to patch the event a cache entry younger than the
\* expiry names: the lookup that the loss of the entry would reach.
C23_Witness ==
    \E r \in Reqs :
        /\ req[r].pc = "update"
        /\ req[r].id \in DOMAIN recent
        /\ Now - recent[req[r].id].ts <= RECENT_EVENT_EXPIRY
        /\ req[r].tgt = recent[req[r].id].ev
        /\ ExistingS(EmptyMap, mapping, req[r].id, Now) = req[r].tgt

\* C24: getRecentEvent hands back an event only for an entry written at most
\* RECENT_EVENT_EXPIRY (five minutes) before the clock's reading; for an
\* older entry it hands back nothing, also while the entry is still in the
\* cache because no write has swept it.
C24_CacheIsTimeBoxed ==
    \A id \in DOMAIN recent :
        LET age == Now - recent[id].ts
            got == getRecentEvent(recent, id, Now)
        IN /\ got # 0 => (age <= 5 * 60 * 1000 /\ got = recent[id].ev)
           /\ age > 5 * 60 * 1000 => got = 0

\* The cache holds an entry older than five minutes that no write has swept:
\* a request that looked its identifier up went on to patch the event the
\* tracking names, and the patch failed, which writes no entry.
C24_Witness ==
    /\ Answered
    /\ last.status # 200
    /\ last.rq.upd = 1
    /\ last.rq.id \in DOMAIN recent
    /\ Now - recent[last.rq.id].ts > 5 * 60 * 1000
    /\ getRecentEvent(recent, last.rq.id, Now) = 0
    /\ last.rq.tgt = Lookup(mapping, last.rq.id)

\* What the conversion of s to zone is stated to give: the first listed
\* format that reads s, else the ISO reading, set to the zone; else s itself
\* when it holds a T and a Z or a +; else nothing.
C25_Stated(v, s, zone) ==
    LET hits == {k \in 1..Len(Formats(v)) : fromFormat(s, Formats(v)[k]).ok}
        first == CHOOSE k \in hits : \A j \in hits : k <= j
    IN IF hits # {} THEN toISO(fromFormat(s, Formats(v)[first]), zone)
       ELSE IF fromISO(s).ok THEN toISO(fromISO(s), zone)
       ELSE IF Includes(s, <<"T">>) /\ (Includes(s, <<"Z">>) \/ Includes(s, <<"+">>))
            THEN s
       ELSE Null

\* C25 as stated: the conversion of a date string gives the first listed
\* format's reading of it, else the ISO reading, expressed in the target
\* zone; a string nothing reads is handed back unchanged when it holds a T
\* and a Z or a +, and the conversion fails otherwise.
C25_Normalizer ==
    conv.pc = "normalized" => conv.iso = C25_Stated(variant, conv.text, conv.zone)

\* C26: the handler of server.js appends " RecordID: <id>" to the
\* description once, when it resolved an identifier from the fields or the
\* description and the description does not hold the marker of that
\* identifier; it leaves every other description as it is; and a description
\* it has been through comes out unchanged when it is sent again.
C26_MarkerIdempotent ==
    conv.passes >= 1 =>
        LET marker == RecordIdLabel \o <<" ">> \o conv.recordId
            lacks == Truthy(conv.recordId) /\ ~Includes(conv.sent, marker)
        IN /\ lacks => conv.description = conv.sent \o <<" ">> \o marker
           /\ ~lacks => conv.description = conv.sent
           /\ Truthy(conv.recordId) => Includes(conv.description, marker)
           /\ conv.passes >= 2 => conv.description = conv.sent

\* A description sent without the marker of its record has been through the
\* handler twice: it holds the marker and the second pass added nothing.
C26_Witness ==
    /\ conv.passes >= 2
    /\ Truthy(conv.recordId)
    /\ ~Includes(OrElse(conv.first, DefaultDescription),
                 RecordIdLabel \o <<" ">> \o conv.recordId)
    /\ Includes(conv.description, RecordIdLabel \o <<" ">> \o conv.recordId)
    /\ conv.description = conv.sent

\* C27: a process that finds no tracking file, or one it cannot read or
\* parse, serves requests with no mappings to start from: until it has
\* received a request its mappings are empty, and the first request it
\* receives, when answered 200, is answered "created".
C27_StartsEmpty ==
    ~(boot.exists /\ boot.readable /\ boot.parses) =>
        /\ served = 0 => mapping = EmptyMap
        /\ (Answered /\ served = 1 /\ last.status = 200) =>
               /\ last.action = "created"
               /\ last.was = EmptyMap

\* The first request after a start with a file cut short, which had held
\* the mapping of the request's record, is answered "created".
C27_Witness ==
    /\ boot.exists /\ boot.readable /\ ~boot.parses
    /\ boot.content # EmptyMap
    /\ Answered /\ served = 1
    /\ last.status = 200 /\ last.action = "created"
    /\ last.rq.id \in DOMAIN boot.content

\* C28: with two processes on one tracking file, every write that succeeds
\* leaves the file holding the mappings in the memory of the process that
\* wrote, and nothing else: what the other process had written is gone.
C28_LastWriterWins ==
    [][(disk /\ file' # file) =>
           IF peer' # peer THEN file' = peer' ELSE file' = mapping'
      ]_vars

\* The second process mapped a record and wrote the file; then the first
\* process wrote: the file holds the first one's mappings, without the
\* record the second one mapped.
C28_Witness ==
    /\ disk
    /\ mapping # EmptyMap
    /\ file = mapping
    /\ \E id \in DOMAIN peer : id \notin DOMAIN file

\* C29 as stated: the update the registry receives for a cancellation (the
\* first field of the request is the status field) carries one field, the
\* status with the configured value for cancelled, and neither start nor
\* end; the update for any other request carries two fields, the start and
\* the end, each a UTC time.
C29_CancellationFields ==
    (alast.status = 200 /\ alast.rq.put = 1) =>
        LET body == AlchemyBodies[alast.rq.p]
            sent == registry[alast.rq.recordId]
        IN IF IsCancellation(body)
           THEN sent = <<Field(TxtEventStatus, TxtRemoved)>>
           ELSE /\ Len(sent) = 2
                /\ sent[1].identifier = TxtStartUse
                /\ sent[2].identifier = TxtEndUse
                /\ \A i \in 1..2 :
                       /\ fromFormat(sent[i].value, FmtIsoZ).ok
                       /\ Instant(fromFormat(sent[i].value, FmtIsoZ))
                            = Instant(fromISO(DateTimeOf(body,
                                  IF i = 1 THEN "start" ELSE "end")))

\* C30 as stated: a request that has come to its end, on whichever route
\* and path, was answered with an HTTP status.
C30_OneResponse ==
    /\ last.rq.p # 0 => last.status \in 100..599
    /\ alast.rq.p # 0 => alast.status \in 100..599

\* C31: in server.js and part_000 every entry of the cache of recent events
\* that is not older than the expiry names the event the tracking maps its
\* identifier to, also while requests overlap.
C31_CacheMirrorsMapping ==
    variant \in {"S", "E"} =>
        \A id \in DOMAIN recent :
            Now - recent[id].ts <= RECENT_EVENT_EXPIRY =>
                /\ id \in DOMAIN mapping
                /\ mapping[id] = recent[id].ev

\* Requests have overlapped, and the cache holds an entry younger than the
\* expiry for a record the tracking maps as well.
C31_Witness ==
    /\ ~seq
    /\ \E id \in DOMAIN recent :
           /\ Now - recent[id].ts <= RECENT_EVENT_EXPIRY
           /\ Lookup(mapping, id) = recent[id].ev

\* C32: the mapping of an identifier is added, changed or removed only by
\* a step of a request for that identifier or by the operator's deletions:
\* a request for one identifier leaves the mappings of all others as they
\* are, whatever it is answered and however requests overlap.
C32_Isolation ==
    [][\A id \in DOMAIN mapping \cup DOMAIN mapping' :
           Lookup(mapping', id) # Lookup(mapping, id) =>
               \/ ClearG
               \/ ClearS
               \/ DeleteOneG(id)
               \/ \E r \in Reqs : /\ req[r].pc # "idle"
                                   /\ req[r].id = id
                                   /\ req'[r] # req[r]
      ]_vars

\* A request has put the mapping of its identifier while another identifier
\* was mapped, and that mapping is as it was.
C32_Witness ==
    /\ Answered
    /\ last.rq.wrote = "put"
    /\ \E id \in DOMAIN last.was :
           /\ id # last.rq.id
           /\ Lookup(mapping, id) = last.was[id]

\* C34 as stated: when a request whose body names its identifier is answered
\* 200, the event the answer names is the event the mapping holds for that
\* identifier in the state the answer leaves.
C34_AnswerIsMapped ==
    (Answered /\ last.status = 200 /\ Truthy(IdOf[variant][last.rq.p])) =>
        Lookup(mapping, last.rq.id) = last.ev

\* C35: every event the mapping names was handed back by a POST of the
\* calendar that succeeded, for the identifier it is mapped to: the update
\* path writes only the event already mapped, and nothing is stored from a
\* POST that failed.
C35_MappedWasCreated ==
    \A id \in DOMAIN mapping :
        /\ mapping[id] \in Events
        /\ remote[mapping[id]] # "none"
        /\ origin[mapping[id]] = id

\* A request of server.js or part_000 has patched the event of its
\* identifier and stored it again: it is the event created for it.
C35_Witness ==
    /\ variant \in {"S", "E"}
    /\ Answered
    /\ last.action = "updated"
    /\ last.rq.id \in DOMAIN mapping
    /\ mapping[last.rq.id] = last.ev
    /\ origin[last.ev] = last.rq.id

\* C33 as stated: no two identifiers are mapped to the same event, in the
\* mappings of the tracking or in the event cache.
C33_Injective ==
    \A a \in DOMAIN mapping, b \in DOMAIN mapping :
        a # b => mapping[a] # mapping[b]

=============================================================================
